---- MODULE Spec2Model ----
\* A model of the binary property list codec of go-plist:
\* bplistParser (src/bplist_parser.go) and bplistGenerator (src/bplist.go),
\* over the value model of src/cf/types.go.
\*
\* Documents are byte sequences.  64-bit unsigned quantities read from a
\* document are kept as 8 big-endian bytes so that Go's wrap-around
\* arithmetic on uint64 is computed exactly.
EXTENDS Integers, Sequences, FiniteSets, TLC

\* ------------------------------------------------------------------
\* Bounds of the model
\* ------------------------------------------------------------------
\* largest number of objects in a hand-built document
MaxObjects == 2
\* largest number of entries of a container handed to the generator
MaxLen == 2
\* deepest chain of nested parseTagAtOffset calls that is followed before
\* the goroutine stack is taken to be exhausted
MaxDepth == 4

\* ------------------------------------------------------------------
\* uint64 arithmetic (big-endian byte sequences of length 8)
\* ------------------------------------------------------------------
Byte == 0..255

Zero64 == <<0, 0, 0, 0, 0, 0, 0, 0>>

AllOnes64 == <<255, 255, 255, 255, 255, 255, 255, 255>>

\* the uint64 holding a small natural number (n < 2^31)
U64(n) ==
  <<0, 0, 0, 0, (n \div 16777216) % 256, (n \div 65536) % 256,
    (n \div 256) % 256, n % 256>>

\* a value that fits an int of the model (below 2^31)
IsSmall(u) == u[1] = 0 /\ u[2] = 0 /\ u[3] = 0 /\ u[4] = 0 /\ u[5] < 128

ToNat(u) == u[5] * 16777216 + u[6] * 65536 + u[7] * 256 + u[8]

\* a + b modulo 2^64
U64Add(a, b) ==
  LET c[i \in 1..9] == IF i = 9 THEN 0 ELSE (a[i] + b[i] + c[i + 1]) \div 256
  IN  [i \in 1..8 |-> (a[i] + b[i] + c[i + 1]) % 256]

\* a * k modulo 2^64, for a multiplier k that is a uint8 widened to uint64
U64Mul(a, k) ==
  LET c[i \in 1..9] == IF i = 9 THEN 0 ELSE (a[i] * k + c[i + 1]) \div 256
  IN  [i \in 1..8 |-> (a[i] * k + c[i + 1]) % 256]

\* a < b as unsigned 64-bit numbers
U64Less(a, b) ==
  \E i \in 1..8 : a[i] < b[i] /\ \A j \in 1..(i - 1) : a[j] = b[j]

U64Leq(a, b) == a = b \/ U64Less(a, b)

Pow2(n) == 2 ^ n

\* uint64(1) << s for a shift count s; Go yields 0 when s >= 64
U64Shl1(s) ==
  IF s >= 64 THEN Zero64
  ELSE [i \in 1..8 |-> IF i = 8 - (s \div 8) THEN Pow2(s % 8) ELSE 0]

\* ------------------------------------------------------------------
\* The byte source (io.ReadSeeker over a document)
\* ------------------------------------------------------------------
\* n bytes starting at absolute position pos (0-based); a read that runs
\* past the end of the document fails and leaves the destination zeroed,
\* and the callers in the parser ignore that failure
ReadBytes(d, pos, n) ==
  IF pos + n <= Len(d) THEN [i \in 1..n |-> d[pos + i]]
  ELSE [i \in 1..n |-> 0]

\* the low 8 bytes of a big-endian field, widened to a uint64
Widen(bs) ==
  [i \in 1..8 |-> IF i + Len(bs) - 8 >= 1 THEN bs[i + Len(bs) - 8] ELSE 0]

\* readSizedInt returning the two halves of a 16-byte integer in the
\* order they are read (high, low)
readSizedInt_HighFirst(d, pos, nbytes) ==
  IF nbytes \in {1, 2, 4, 8}
  THEN [ok |-> TRUE, lo |-> Widen(ReadBytes(d, pos, nbytes)), hi |-> Zero64]
  ELSE IF nbytes = 16
  THEN [ok |-> TRUE, lo |-> ReadBytes(d, pos, 8), hi |-> ReadBytes(d, pos + 8, 8)]
  ELSE [ok |-> FALSE, lo |-> Zero64, hi |-> Zero64]

\* readSizedInt: low64, high64 of the integer of nbytes bytes at pos
readSizedInt(d, pos, nbytes) ==
  IF nbytes \in {1, 2, 4, 8}
  THEN [ok |-> TRUE, lo |-> Widen(ReadBytes(d, pos, nbytes)), hi |-> Zero64]
  ELSE IF nbytes = 16
  THEN [ok |-> TRUE, lo |-> ReadBytes(d, pos + 8, 8), hi |-> ReadBytes(d, pos, 8)]
  ELSE [ok |-> FALSE, lo |-> Zero64, hi |-> Zero64]

\* ------------------------------------------------------------------
\* The trailer (bplistTrailer) and its validation
\* ------------------------------------------------------------------
TrailerSize == 32

\* binary.Read of the 32 trailer bytes into the bplistTrailer struct
ReadTrailer(d, pos) ==
  [OffsetIntSize     |-> ReadBytes(d, pos + 6, 1)[1],
   ObjectRefSize     |-> ReadBytes(d, pos + 7, 1)[1],
   NumObjects        |-> ReadBytes(d, pos + 8, 8),
   TopObject         |-> ReadBytes(d, pos + 16, 8),
   OffsetTableOffset |-> ReadBytes(d, pos + 24, 8)]

NoTrailer ==
  [OffsetIntSize |-> 0, ObjectRefSize |-> 0, NumObjects |-> Zero64,
   TopObject |-> Zero64, OffsetTableOffset |-> Zero64]

\* the reference-width check of validateDocumentTrailer: the product
\* 8 * ObjectRefSize is a uint8 product and the shift is a uint64 shift
RefWidthRejects(t) ==
  U64Less(U64Shl1((8 * t.ObjectRefSize) % 256), t.NumObjects)

\* validateDocumentTrailer with its first comparison written > instead of >=
validateDocumentTrailer_TableAtTrailer(t, trailerOffset) ==
  IF U64Less(U64(trailerOffset), t.OffsetTableOffset) THEN "beyond"
  ELSE IF U64Less(t.OffsetTableOffset, U64(9)) THEN "header"
  ELSE IF U64Less(U64Add(U64Mul(t.NumObjects, t.OffsetIntSize), t.OffsetTableOffset),
                  U64(trailerOffset)) THEN "garbage"
  ELSE IF U64Less(U64(trailerOffset), t.NumObjects) THEN "toomany"
  ELSE IF RefWidthRejects(t) THEN "refsize"
  ELSE IF t.OffsetIntSize < 8
          /\ U64Leq(U64Shl1(8 * t.OffsetIntSize), t.OffsetTableOffset) THEN "offsize"
  ELSE IF U64Leq(t.NumObjects, t.TopObject) THEN "top"
  ELSE "ok"

\* validateDocumentTrailer: "ok", or the check that panics first
validateDocumentTrailer(t, trailerOffset) ==
  IF U64Leq(U64(trailerOffset), t.OffsetTableOffset) THEN "beyond"
  ELSE IF U64Less(t.OffsetTableOffset, U64(9)) THEN "header"
  ELSE IF U64Less(U64Add(U64Mul(t.NumObjects, t.OffsetIntSize), t.OffsetTableOffset),
                  U64(trailerOffset)) THEN "garbage"
  ELSE IF U64Less(U64(trailerOffset), t.NumObjects) THEN "toomany"
  ELSE IF RefWidthRejects(t) THEN "refsize"
  ELSE IF t.OffsetIntSize < 8
          /\ U64Leq(U64Shl1(8 * t.OffsetIntSize), t.OffsetTableOffset) THEN "offsize"
  ELSE IF U64Leq(t.NumObjects, t.TopObject) THEN "top"
  ELSE "ok"

\* validateObjectListLength: TRUE when the list is rejected
validateObjectListLength(t, off, length) ==
  U64Less(t.OffsetTableOffset,
          U64Add(U64(off), U64Mul(length, t.ObjectRefSize)))

\* ------------------------------------------------------------------
\* Values (cfValue).  A container value holds the identity of its
\* allocation; the allocation itself lives in the heap.
\* ------------------------------------------------------------------
Val(k, f, v) == [kind |-> k, flag |-> f, val |-> v]

Nil == Val("nil", FALSE, <<>>)

cfBoolean(b) == Val("bool", b, <<>>)

cfNumber(signed, value) == Val("num", signed, value)

cfReal(wide, bits) == Val("real", wide, bits)

cfDate(bits) == Val("date", FALSE, bits)

cfData(bytes) == Val("data", FALSE, bytes)

cfString(bytes) == Val("string", FALSE, bytes)

cfUID(value) == Val("uid", FALSE, value)

cfArray(id) == Val("array", FALSE, <<id>>)

cfDictionary(id) == Val("dict", FALSE, <<id>>)

IsContainer(v) == v.kind \in {"array", "dict"}

\* float64(val) for a float32 val, on the IEEE-754 bit patterns
F32ToF64(b) ==
  LET sign == b[1] \div 128
      exp  == (b[1] % 128) * 2 + b[2] \div 128
      mant == (b[2] % 128) * 65536 + b[3] * 256 + b[4]
      \* number of left shifts that normalise a subnormal mantissa
      nshift[m \in 0..8388607] ==
        IF m = 0 \/ m >= 4194304 THEN 1 ELSE 1 + nshift[m * 2]
      k    == IF exp = 0 /\ mant # 0 THEN nshift[mant] ELSE 0
      sh[i \in 0..23] == IF i = 0 THEN mant ELSE (sh[i - 1] * 2) % 8388608
      e64  == IF exp = 255 THEN 2047
              ELSE IF exp = 0 THEN (IF mant = 0 THEN 0 ELSE 897 - k)
              ELSE exp + 896
      m    == sh[k]
  IN  <<sign * 128 + e64 \div 16,
        (e64 % 16) * 16 + m \div 524288,
        (m \div 2048) % 256,
        (m \div 8) % 256,
        (m % 8) * 32, 0, 0, 0>>

\* utf16.Decode: code units to runes
RECURSIVE utf16Decode(_)
utf16Decode(u) ==
  IF Len(u) = 0 THEN <<>>
  ELSE IF u[1] >= 55296 /\ u[1] < 56320 /\ Len(u) >= 2
          /\ u[2] >= 56320 /\ u[2] < 57344
       THEN <<(u[1] - 55296) * 1024 + (u[2] - 56320) + 65536>>
            \o utf16Decode(SubSeq(u, 3, Len(u)))
  ELSE IF u[1] >= 55296 /\ u[1] < 57344
       THEN <<65533>> \o utf16Decode(Tail(u))
  ELSE <<u[1]>> \o utf16Decode(Tail(u))

\* the UTF-8 bytes of one rune (string(rune))
utf8Rune(r) ==
  IF r < 128 THEN <<r>>
  ELSE IF r < 2048 THEN <<192 + r \div 64, 128 + (r % 64)>>
  ELSE IF (r >= 55296 /\ r < 57344) \/ r > 1114111 THEN <<239, 191, 189>>
  ELSE IF r < 65536
       THEN <<224 + r \div 4096, 128 + ((r \div 64) % 64), 128 + (r % 64)>>
  ELSE <<240 + r \div 262144, 128 + ((r \div 4096) % 64),
         128 + ((r \div 64) % 64), 128 + (r % 64)>>

\* string(runes)
RECURSIVE utf8Encode(_)
utf8Encode(rs) ==
  IF Len(rs) = 0 THEN <<>> ELSE utf8Rune(rs[1]) \o utf8Encode(Tail(rs))

\* big-endian uint16 code units of a byte sequence of even length
Units16(bs) == [i \in 1..(Len(bs) \div 2) |-> bs[2 * i - 1] * 256 + bs[2 * i]]

\* ------------------------------------------------------------------
\* parseTagAtOffset
\* ------------------------------------------------------------------
\* countForTag: the count of a counted tag whose tag byte is at pos - 1,
\* and the position of the first byte after the count
countForTag(d, pos, tag) ==
  IF tag % 16 # 15
  THEN [ok |-> TRUE, cnt |-> U64(tag % 16), next |-> pos]
  ELSE LET intTag == ReadBytes(d, pos, 1)[1]
           n      == Pow2(intTag % 16)
           r      == readSizedInt(d, pos + 1, n)
       IN  [ok |-> r.ok, cnt |-> r.lo, next |-> pos + 1 + n]

\* make([]T, cnt): a length that is not a small number is refused by the
\* runtime (makeslice: len out of range, or out of memory)
AllocFaults(cnt) == ~IsSmall(cnt)

\* the bound check of a data object and of a string object: TRUE when
\* the object is rejected; width is the size of one character
PayloadRejects(t, off, cnt, width) ==
  U64Less(t.OffsetTableOffset, U64Add(U64(off), U64Mul(cnt, width)))

\* the range check on an object index written > instead of >=
IndexRejects_OffByOne(t, idx) == U64Less(t.NumObjects, idx)

\* the range check on an object index read from a container:
\* TRUE when the index is rejected
IndexRejects(t, idx) == U64Leq(t.NumObjects, idx)

\* p.offtable[i]: indexing outside the slice is a runtime panic
OfftableHas(offtable, i) == i < Len(offtable)

\* the self-reference check of a container at off on a child offset
SelfRefRejects(off, childOffset) == childOffset = off

\* the result of one parseTagAtOffset step
Res(r, v, cnt, indices, lo, hi) ==
  [res |-> r, v |-> v, cnt |-> cnt, indices |-> indices, lo |-> lo, hi |-> hi]

Error == Res("error", Nil, 0, <<>>, 0, -1)

Fault == Res("fault", Nil, 0, <<>>, 0, -1)

Value(v, lo, hi) == Res("value", v, 0, <<>>, lo, hi)

\* the object references of a container: n references of ObjectRefSize
\* bytes starting at pos, each checked against NumObjects
readIndices(d, t, pos, n) ==
  LET ref(i) == readSizedInt(d, pos + (i - 1) * t.ObjectRefSize, t.ObjectRefSize)
  IN  IF n = 0 THEN [ok |-> TRUE, indices |-> <<>>]
      ELSE IF ~ref(1).ok THEN [ok |-> FALSE, indices |-> <<>>]
      ELSE IF \E i \in 1..n : IndexRejects(t, ref(i).lo)
           THEN [ok |-> FALSE, indices |-> <<>>]
      ELSE [ok |-> TRUE, indices |-> [i \in 1..n |-> ToNat(ref(i).lo)]]

\* data, ASCII string and UTF-16 string objects
parseCounted(d, t, off, tag) ==
  LET c     == countForTag(d, off + 1, tag)
      width == IF tag \div 16 = 6 THEN 2 ELSE 1
      n     == ToNat(c.cnt)
      bytes == ReadBytes(d, c.next, n * width)
  IN  IF ~c.ok THEN Error
      ELSE IF PayloadRejects(t, off, c.cnt, width) THEN Error
      ELSE IF AllocFaults(c.cnt) THEN Fault
      ELSE IF tag \div 16 = 4 THEN Value(cfData(bytes), c.next, c.next + n - 1)
      ELSE IF tag \div 16 = 5 THEN Value(cfString(bytes), c.next, c.next + n - 1)
      ELSE Value(cfString(utf8Encode(utf16Decode(Units16(bytes)))),
                 c.next, c.next + 2 * n - 1)

\* array and dictionary objects, up to and including the loop that reads
\* the object references; per is 1 for an array and 2 for a dictionary
parseList(d, t, off, tag, per) ==
  LET c  == countForTag(d, off + 1, tag)
      n  == ToNat(c.cnt)
      ix == readIndices(d, t, c.next, n * per)
  IN  IF ~c.ok THEN Error
      ELSE IF validateObjectListLength(t, off, U64Mul(c.cnt, per)) THEN Error
      ELSE IF AllocFaults(c.cnt) THEN Fault
      ELSE IF ~ix.ok THEN Error
      ELSE Res(IF per = 1 THEN "array" ELSE "dict", Nil, n, ix.indices,
               c.next, c.next + n * per * t.ObjectRefSize - 1)

\* parseTagAtOffset for every object but the loops of a container that
\* follow the reading of its references
parseTagAtOffset(d, t, off) ==
  LET tag == ReadBytes(d, off, 1)[1]
      hn  == tag \div 16
      ln  == tag % 16
      int == readSizedInt(d, off + 1, Pow2(ln))
      uid == readSizedInt(d, off + 1, ln + 1)
  IN  IF off >= Len(d) THEN Error
      ELSE IF hn = 0
           THEN (IF ln \in {8, 9} THEN Value(cfBoolean(tag = 9), 0, -1)
                 ELSE Value(Nil, 0, -1))
      ELSE IF hn = 1
           THEN (IF int.ok
                 THEN Value(cfNumber(int.hi = AllOnes64, int.lo), 0, -1)
                 ELSE Error)
      ELSE IF hn = 2
           THEN (IF ln = 2
                 THEN Value(cfReal(FALSE, F32ToF64(ReadBytes(d, off + 1, 4))), 0, -1)
                 ELSE IF ln = 3
                 THEN Value(cfReal(TRUE, ReadBytes(d, off + 1, 8)), 0, -1)
                 ELSE Error)
      ELSE IF hn = 3 THEN Value(cfDate(ReadBytes(d, off + 1, 8)), 0, -1)
      ELSE IF hn \in {4, 5, 6} THEN parseCounted(d, t, off, tag)
      ELSE IF hn = 8
           THEN (IF uid.ok THEN Value(cfUID(uid.lo), 0, -1) ELSE Error)
      ELSE IF hn = 13 THEN parseList(d, t, off, tag, 2)
      ELSE IF hn = 10 THEN parseList(d, t, off, tag, 1)
      ELSE Error

\* ------------------------------------------------------------------
\* Wire layout shared by the generator and by hand-built documents
\* ------------------------------------------------------------------
Header == <<98, 112, 108, 105, 115, 116, 48, 48>>

\* the w low bytes of a small number, big-endian
IntBytes(n, w) == [i \in 1..w |-> U64(n)[8 - w + i]]

RECURSIVE Concat(_)
Concat(ss) ==
  IF Len(ss) = 0 THEN <<>>
  ELSE IF Len(ss) = 1 THEN ss[1]
  ELSE Concat(SubSeq(ss, 1, Len(ss) \div 2))
         \o Concat(SubSeq(ss, Len(ss) \div 2 + 1, Len(ss)))

\* the 32 bytes of a bplistTrailer
TrailerBytes(ois, ors, num, top, oto) ==
  <<0, 0, 0, 0, 0, 0, ois, ors>> \o num \o top \o oto

\* ------------------------------------------------------------------
\* The generator (bplistGenerator): hashing, uniquing, writing
\* ------------------------------------------------------------------
\* float32(val) for a float64 val, on the IEEE-754 bit patterns
\* (round to nearest, ties to even)
F64ToF32(b) ==
  LET sign   == b[1] \div 128
      e      == (b[1] % 128) * 16 + b[2] \div 16
      hi23   == (b[2] % 16) * 524288 + b[3] * 2048 + b[4] * 8 + b[5] \div 32
      rem    == (b[5] % 32) * 16777216 + b[6] * 65536 + b[7] * 256 + b[8]
      E      == e - 896
      upN    == rem > 268435456 \/ (rem = 268435456 /\ hi23 % 2 = 1)
      normal == E * 8388608 + hi23 + (IF upN THEN 1 ELSE 0)
      sh     == 1 - E
      sig    == 8388608 + hi23
      q      == sig \div (2 ^ sh)
      r      == sig % (2 ^ sh)
      half   == 2 ^ (sh - 1)
      upS    == r > half \/ (r = half /\ (rem # 0 \/ q % 2 = 1))
      sub    == q + (IF upS THEN 1 ELSE 0)
      inf    == 255 * 8388608
      val    == IF e = 2047
                THEN (IF hi23 = 0 /\ rem = 0 THEN inf
                      ELSE inf + 4194304 + (hi23 % 4194304))
                ELSE IF e = 0 THEN 0
                ELSE IF E >= 255 THEN inf
                ELSE IF E >= 1 THEN (IF normal >= inf THEN inf ELSE normal)
                ELSE IF sh > 25 THEN 0
                ELSE sub
  IN  <<sign * 128 + val \div 16777216, (val \div 65536) % 256,
        (val \div 256) % 256, val % 256>>

\* a float is NaN: exponent all ones, mantissa not zero
IsNaN32(b) == (b[1] % 128) * 2 + b[2] \div 128 = 255
              /\ ((b[2] % 128) # 0 \/ b[3] # 0 \/ b[4] # 0)

IsNaN64(b) == (b[1] % 128) * 16 + b[2] \div 16 = 2047
              /\ ((b[2] % 16) # 0 \/ \E i \in 3..8 : b[i] # 0)

\* crc32.ChecksumIEEE, on 32 bits kept least significant bit first
Xor(a, b) == (a + b) % 2

Poly == [i \in 1..32 |->
           IF i \in {1, 2, 3, 5, 6, 8, 9, 11, 12, 13, 17, 23, 24, 27} THEN 1 ELSE 0]

\* one shift of the reflected CRC register; Poly is 0xEDB88320 bit-reversed
\* into register order (bit 32 - i of the polynomial at position i)
crcShift(c) ==
  LET shifted == [i \in 1..32 |-> IF i = 32 THEN 0 ELSE c[i + 1]]
  IN  IF c[1] = 1
      THEN [i \in 1..32 |-> Xor(shifted[i], Poly[33 - i])]
      ELSE shifted

RECURSIVE crcShifts(_, _)
crcShifts(c, n) == IF n = 0 THEN c ELSE crcShifts(crcShift(c), n - 1)

RECURSIVE crcUpdate(_, _)
crcUpdate(c, bs) ==
  IF Len(bs) = 0 THEN c
  ELSE crcUpdate(
         crcShifts([i \in 1..32 |->
                      IF i <= 8 THEN Xor(c[i], (bs[1] \div (2 ^ (i - 1))) % 2)
                      ELSE c[i]], 8),
         Tail(bs))

crc32(bs) == [i \in 1..32 |-> 1 - crcUpdate([j \in 1..32 |-> 1], bs)[i]]

\* the key under which a value is held in objmap (cfValue.hash()): a Go
\* interface value, that is a dynamic type and a value of that type
Key(t, v) == [t |-> t, v |-> v]

hash(pval) ==
  CASE IsContainer(pval) -> Key("ptr", pval.val)
    [] pval.kind = "string" -> Key("string", pval.val)
    [] pval.kind = "num" -> Key(IF pval.flag THEN "int64" ELSE "uint64", pval.val)
    [] pval.kind = "real" /\ pval.flag -> Key("float64", pval.val)
    [] pval.kind = "real" /\ ~pval.flag -> Key("float32", F64ToF32(pval.val))
    [] pval.kind = "bool" -> Key("bool", <<IF pval.flag THEN 1 ELSE 0>>)
    [] pval.kind = "uid" -> Key("cfUID", pval.val)
    [] pval.kind = "data" -> Key("uint32", crc32(pval.val))
    [] pval.kind = "date" -> Key("time", pval.val)

\* two keys are the same map key: floats compare by value, so the two
\* zeros are equal and a NaN equals nothing, itself included
KeyEq(a, b) ==
  /\ a.t = b.t
  /\ IF a.t = "float64"
     THEN /\ ~IsNaN64(a.v)
          /\ ~IsNaN64(b.v)
          /\ (a.v = b.v \/ ({a.v, b.v} \subseteq {Zero64, <<128, 0, 0, 0, 0, 0, 0, 0>>}))
     ELSE IF a.t = "float32"
     THEN /\ ~IsNaN32(a.v)
          /\ ~IsNaN32(b.v)
          /\ (a.v = b.v \/ ({a.v, b.v} \subseteq {<<0, 0, 0, 0>>, <<128, 0, 0, 0>>}))
     ELSE a.v = b.v

\* objmap is a sequence of entries [key, idx]; at most one entry per key
MapHas(m, key) == \E i \in 1..Len(m) : KeyEq(m[i].key, key)

\* m[key]; a key that is absent reads as zero
MapGet(m, key) ==
  IF MapHas(m, key) THEN m[CHOOSE i \in 1..Len(m) : KeyEq(m[i].key, key)].idx
  ELSE 0

MapPut(m, key, idx) ==
  IF MapHas(m, key)
  THEN [i \in 1..Len(m) |-> IF KeyEq(m[i].key, key) THEN [key |-> m[i].key, idx |-> idx]
                            ELSE m[i]]
  ELSE Append(m, [key |-> key, idx |-> idx])

\* isUniquedBplistValue with cfString missing from its type switch
isUniquedBplistValue_NoString(pval) ==
  pval.kind \in {"num", "real", "date", "data"}

isUniquedBplistValue(pval) ==
  pval.kind \in {"string", "num", "real", "date", "data"}

\* a < b for Go strings (byte-wise)
StrLess(a, b) ==
  \E i \in 1..(Len(b)) :
    /\ \A j \in 1..(i - 1) : j <= Len(a) /\ a[j] = b[j]
    /\ (i > Len(a) \/ (i <= Len(a) /\ a[i] < b[i] /\ i - 1 < Len(a)))

\* Dictionary.Sort: sort.Sort on at most 6 entries is an insertion sort
\* that swaps keys and values together
RECURSIVE insertEntry(_, _, _)
insertEntry(d, key, value) ==
  LET n == Len(d.keys)
  IN  IF n > 0 /\ StrLess(key, d.keys[n])
      THEN LET rest == insertEntry([keys |-> SubSeq(d.keys, 1, n - 1),
                                    values |-> SubSeq(d.values, 1, n - 1)], key, value)
           IN  [keys |-> Append(rest.keys, d.keys[n]),
                values |-> Append(rest.values, d.values[n])]
      ELSE [keys |-> Append(d.keys, key), values |-> Append(d.values, value)]

\* Dictionary.Sort with a Swap that exchanges the keys and leaves the
\* values where they are
RECURSIVE sortEntries_KeysOnly(_, _)
sortEntries_KeysOnly(keys, values) ==
  IF Len(keys) = 0 THEN [keys |-> <<>>, values |-> <<>>]
  ELSE LET rest == sortEntries_KeysOnly(SubSeq(keys, 1, Len(keys) - 1),
                                        SubSeq(values, 1, Len(values) - 1))
       IN  [keys |-> insertEntry(rest, keys[Len(keys)], values[Len(values)]).keys,
            values |-> Append(rest.values, values[Len(values)])]

RECURSIVE sortEntries(_, _)
sortEntries(keys, values) ==
  IF Len(keys) = 0 THEN [keys |-> <<>>, values |-> <<>>]
  ELSE insertEntry(sortEntries(SubSeq(keys, 1, Len(keys) - 1),
                               SubSeq(values, 1, Len(values) - 1)),
                   keys[Len(keys)], values[Len(values)])

\* Dictionary.Sort leaving the entries as they are listed
sort_AsListed(node) == node

sort(node) ==
  [node EXCEPT !.keys = sortEntries(node.keys, node.values).keys,
               !.values = sortEntries(node.keys, node.values).values]

\* flattenPlistValue on generator state g = [objmap, objtable, nodes]
RECURSIVE flattenPlistValue(_, _)
RECURSIVE flattenAll(_, _)
flattenAll(g, vs) ==
  IF Len(vs) = 0 THEN g
  ELSE CHOOSE r \in {flattenAll(h, rest) : h \in {flattenPlistValue(g, vs[1])},
                                          rest \in {Tail(vs)}} : TRUE

\* (the generator state is bound once, as g, before the body reads it)
flattenPlistValue(p, pval) ==
  CHOOSE r \in {
    IF isUniquedBplistValue(pval) /\ MapHas(g.objmap, hash(pval)) THEN g
    ELSE
      LET g1 == [g EXCEPT !.objmap = MapPut(@, hash(pval), Len(g.objtable)),
                          !.objtable = Append(@, pval)]
          id == pval.val[1]
          g2 == [g1 EXCEPT !.nodes[id] = sort(@)]
      IN  IF pval.kind = "dict"
          THEN flattenAll(
                 flattenAll(g2, [i \in 1..Len(g2.nodes[id].keys) |->
                                   cfString(g2.nodes[id].keys[i])]),
                 g2.nodes[id].values)
          ELSE IF pval.kind = "array" THEN flattenAll(g1, g1.nodes[id].values)
          ELSE g1
    : g \in {p}} : TRUE

\* minimumSizeForInt, on a uint64
minimumSizeForInt(n) ==
  IF U64Leq(n, <<0, 0, 0, 0, 0, 0, 0, 255>>) THEN 1
  ELSE IF U64Leq(n, <<0, 0, 0, 0, 0, 0, 255, 255>>) THEN 2
  ELSE IF U64Leq(n, <<0, 0, 0, 0, 255, 255, 255, 255>>) THEN 4
  ELSE 8

\* writeSizedInt writing the low byte first
writeSizedInt_LowFirst(n, nbytes) == [i \in 1..nbytes |-> n[9 - i]]

\* writeSizedInt: the nbytes low bytes of n
writeSizedInt(n, nbytes) == [i \in 1..nbytes |-> n[8 - nbytes + i]]

\* writeBoolTag with the two tags exchanged
writeBoolTag_Exchanged(v) == <<IF v THEN 8 ELSE 9>>

writeBoolTag(v) == <<IF v THEN 9 ELSE 8>>

\* writeIntTag with every limit compared by < instead of <=
writeIntTag_Strict(n) ==
  IF U64Less(n, <<0, 0, 0, 0, 0, 0, 0, 255>>) THEN <<16>> \o writeSizedInt(n, 1)
  ELSE IF U64Less(n, <<0, 0, 0, 0, 0, 0, 255, 255>>) THEN <<17>> \o writeSizedInt(n, 2)
  ELSE IF U64Less(n, <<0, 0, 0, 0, 255, 255, 255, 255>>) THEN <<18>> \o writeSizedInt(n, 4)
  ELSE <<19>> \o n

writeIntTag(n) ==
  IF U64Leq(n, <<0, 0, 0, 0, 0, 0, 0, 255>>) THEN <<16>> \o writeSizedInt(n, 1)
  ELSE IF U64Leq(n, <<0, 0, 0, 0, 0, 0, 255, 255>>) THEN <<17>> \o writeSizedInt(n, 2)
  ELSE IF U64Leq(n, <<0, 0, 0, 0, 255, 255, 255, 255>>) THEN <<18>> \o writeSizedInt(n, 4)
  ELSE <<19>> \o n

writeUIDTag(u) ==
  <<128 + (minimumSizeForInt(u) - 1)>> \o writeSizedInt(u, minimumSizeForInt(u))

writeRealTag(n, bits) ==
  IF bits = 32 THEN <<34>> \o F64ToF32(n) ELSE <<35>> \o n

writeDateTag(t) == <<51>> \o t

\* writeCountedTag keeping the count 15 in the low nibble
writeCountedTag_Above(tag, count) ==
  IF count > 15 THEN <<tag + 15>> \o writeIntTag(U64(count))
  ELSE <<tag + count>>

writeCountedTag(tag, count) ==
  IF count >= 15 THEN <<tag + 15>> \o writeIntTag(U64(count))
  ELSE <<tag + count>>

writeDataTag(data) == writeCountedTag(64, Len(data)) \o data

\* "for _, r := range str": the runes of a Go string; a byte that does
\* not start a valid UTF-8 sequence yields U+FFFD
RECURSIVE utf8Decode(_)
utf8Decode(bs) ==
  LET n     == Len(bs)
      c(i)  == i <= n /\ bs[i] >= 128 /\ bs[i] < 192
      b0    == bs[1]
      two   == b0 >= 194 /\ b0 <= 223 /\ c(2)
      three == /\ b0 >= 224 /\ b0 <= 239 /\ c(2) /\ c(3)
               /\ (b0 = 224 => bs[2] >= 160)
               /\ (b0 = 237 => bs[2] < 160)
      four  == /\ b0 >= 240 /\ b0 <= 244 /\ c(2) /\ c(3) /\ c(4)
               /\ (b0 = 240 => bs[2] >= 144)
               /\ (b0 = 244 => bs[2] < 144)
  IN  IF n = 0 THEN <<>>
      ELSE IF b0 < 128 THEN <<b0>> \o utf8Decode(Tail(bs))
      ELSE IF two
           THEN <<(b0 - 192) * 64 + (bs[2] - 128)>> \o utf8Decode(SubSeq(bs, 3, n))
      ELSE IF three
           THEN <<(b0 - 224) * 4096 + (bs[2] - 128) * 64 + (bs[3] - 128)>>
                \o utf8Decode(SubSeq(bs, 4, n))
      ELSE IF four
           THEN <<(b0 - 240) * 262144 + (bs[2] - 128) * 4096
                  + (bs[3] - 128) * 64 + (bs[4] - 128)>>
                \o utf8Decode(SubSeq(bs, 5, n))
      ELSE <<65533>> \o utf8Decode(Tail(bs))

\* utf16.Encode
RECURSIVE utf16Encode(_)
utf16Encode(rs) ==
  IF Len(rs) = 0 THEN <<>>
  ELSE LET r == rs[1]
       IN  (IF (r >= 55296 /\ r < 57344) \/ r > 1114111 THEN <<65533>>
            ELSE IF r < 65536 THEN <<r>>
            ELSE <<55296 + ((r - 65536) \div 1024), 56320 + ((r - 65536) % 1024)>>)
           \o utf16Encode(Tail(rs))

\* writeStringTag taking the UTF-16 form for every string
writeStringTag_Wide(str) ==
  LET units == utf16Encode(utf8Decode(str))
  IN  writeCountedTag(96, Len(units))
      \o Concat([i \in 1..Len(units) |-> <<units[i] \div 256, units[i] % 256>>])

writeStringTag(str) ==
  LET runes == utf8Decode(str)
      units == utf16Encode(runes)
  IN  IF \E i \in 1..Len(runes) : runes[i] > 255
      THEN writeCountedTag(96, Len(units))
           \o Concat([i \in 1..Len(units) |-> <<units[i] \div 256, units[i] % 256>>])
      ELSE writeCountedTag(80, Len(str)) \o str

\* the result of writing one object: the bytes, or a panic
Written(bytes) == [ok |-> TRUE, bytes |-> bytes]

WritePanic == [ok |-> FALSE, bytes |-> <<>>]

\* the object references of a container, each looked up in objmap
writeRefs(g, ors, keys) ==
  IF \E i \in 1..Len(keys) : ~MapHas(g.objmap, keys[i]) THEN WritePanic
  ELSE IF Len(keys) > 0 /\ ors \notin {1, 2, 4, 8} THEN WritePanic
  ELSE Written(Concat([i \in 1..Len(keys) |->
                         writeSizedInt(U64(MapGet(g.objmap, keys[i])), ors)]))

writeDictionaryTag(g, ors, dict) ==
  LET refs == writeRefs(g, ors,
                [i \in 1..(2 * Len(dict.keys)) |->
                   IF i <= Len(dict.keys) THEN hash(cfString(dict.keys[i]))
                   ELSE hash(dict.values[i - Len(dict.keys)])])
  IN  IF refs.ok THEN Written(writeCountedTag(208, Len(dict.keys)) \o refs.bytes)
      ELSE WritePanic

writeArrayTag(g, ors, arr) ==
  LET refs == writeRefs(g, ors, [i \in 1..Len(arr) |-> hash(arr[i])])
  IN  IF refs.ok THEN Written(writeCountedTag(160, Len(arr)) \o refs.bytes)
      ELSE WritePanic

writePlistValue(g, ors, pval) ==
  CASE pval.kind = "nil" -> Written(<<>>)
    [] pval.kind = "dict" -> writeDictionaryTag(g, ors, g.nodes[pval.val[1]])
    [] pval.kind = "array" -> writeArrayTag(g, ors, g.nodes[pval.val[1]].values)
    [] pval.kind = "string" -> Written(writeStringTag(pval.val))
    [] pval.kind = "num" -> Written(writeIntTag(pval.val))
    [] pval.kind = "real" -> Written(writeRealTag(pval.val, IF pval.flag THEN 64 ELSE 32))
    [] pval.kind = "bool" -> Written(writeBoolTag(pval.flag))
    [] pval.kind = "data" -> Written(writeDataTag(pval.val))
    [] pval.kind = "date" -> Written(writeDateTag(pval.val))
    [] pval.kind = "uid" -> Written(writeUIDTag(pval.val))

\* generateDocument after the flatten pass: the bytes written, and
\* whether a lookup in objmap failed
writeObjects(g, ors, i, acc) ==
  LET n    == Len(g.objtable)
      per  == [x \in i..n |-> writePlistValue(g, ors, g.objtable[x])]
      bad  == {x \in i..n : ~per[x].ok}
      last == IF bad = {} THEN n ELSE (CHOOSE x \in bad : \A y \in bad : x <= y) - 1
  IN  [ok |-> acc.ok /\ bad = {},
       bytes |-> acc.bytes \o Concat([x \in 1..(last - i + 1) |-> per[i + x - 1].bytes]),
       offs |-> acc.offs \o
                [x \in 1..(last - i + 1) |->
                   Len(acc.bytes) + Len(Concat([y \in 1..(x - 1) |-> per[i + y - 1].bytes]))]]

\* the end of generateDocument: the offset table and the trailer that
\* follow the header and the objects written (body)
writeTrailer(g, root, ors, body) ==
  LET num  == U64(Len(g.objtable))
      ois  == minimumSizeForInt(U64(Len(body.bytes)))
      top  == U64(MapGet(g.objmap, hash(root)))
      oto  == U64(Len(body.bytes))
  IN  IF ~body.ok THEN [ok |-> FALSE, bytes |-> body.bytes]
      ELSE [ok |-> TRUE,
            bytes |-> body.bytes
                      \o Concat([i \in 1..Len(body.offs) |->
                                   writeSizedInt(U64(body.offs[i]), ois)])
                      \o TrailerBytes(ois, ors, num, top, oto)]

\* the header and the objects of objtable, with references of ors bytes
writeBody(g, ors) ==
  writeObjects(g, ors, 1, [ok |-> TRUE, bytes |-> Header, offs |-> <<>>])

generateDocument(g, root) ==
  writeTrailer(g, root, minimumSizeForInt(U64(Len(g.objtable))),
               writeBody(g, minimumSizeForInt(U64(Len(g.objtable)))))

\* ------------------------------------------------------------------
\* State of one bplistParser and of the parseDocument call running on it
\* ------------------------------------------------------------------
VARIABLES
  doc,            \* the bytes behind p.reader
  pc,             \* position of parseDocument: start, offtable, objects, resolve, done
  trailer,        \* p.trailer
  trailerOffset,  \* p.trailerOffset
  offtable,       \* p.offtable
  objrefs,        \* p.objrefs: offset -> value
  heap,           \* the arrays and dictionaries allocated so far
  delayedObjects, \* p.delayedObjects: records [id, i, off], slot i of container id
  stack,          \* the dictionaries whose parseTagAtOffset call is in progress
  k,              \* index of the range loop over p.offtable
  pval,           \* the value parseDocument returns
  outcome,        \* running, ok, error, fault (runtime panic), overflow (stack exhausted)
  why,            \* what raised the error
  lookups,        \* every index used so far to index p.offtable
  payload,        \* [off, lo, hi]: payload byte range read for each accepted counted object
  selfref,        \* offsets of the containers read so far that refer to their own offset
  parses,         \* offset -> number of parseTagAtOffset calls made for it
  source,         \* "bytes": a document given as bytes; "tree": one written by the generator
  root,           \* the value handed to generateDocument
  given,          \* the containers of that value as they were handed over
  nodes,          \* the containers of that value as they are now
  objmap,         \* p.objmap of the generator
  objtable,       \* p.objtable of the generator
  parked          \* a second parser or generator and its document, while it does not run

vars == <<doc, pc, trailer, trailerOffset, offtable, objrefs, heap,
          delayedObjects, stack, k, pval, outcome, why, lookups, payload, selfref,
          parses, source, root, given, nodes, objmap, objtable, parked>>

genVars == <<source, root, given, nodes, objmap, objtable>>

\* strconv.ParseInt(string(ver), 10, 0) on the two version bytes;
\* -1000 stands for the panic on a string that is not a number
mustParseInt(ver) ==
  LET digit(b) == b >= 48 /\ b <= 57
  IN  IF digit(ver[1]) /\ digit(ver[2]) THEN (ver[1] - 48) * 10 + (ver[2] - 48)
      ELSE IF ver[1] = 45 /\ digit(ver[2]) THEN 0 - (ver[2] - 48)
      ELSE IF ver[1] = 43 /\ digit(ver[2]) THEN ver[2] - 48
      ELSE -1000

Magic == <<98, 112, 108, 105, 115, 116>>

\* the checks of parseDocument that precede the trailer validation
headerCheck(d) ==
  IF Len(d) < 6 \/ ReadBytes(d, 0, 6) # Magic THEN "magic"
  ELSE IF Len(d) < 7 THEN "version"
  ELSE IF mustParseInt(<<d[7], IF Len(d) >= 8 THEN d[8] ELSE 0>>) = -1000 THEN "version"
  ELSE IF mustParseInt(<<d[7], IF Len(d) >= 8 THEN d[8] ELSE 0>>) > 1 THEN "version"
  ELSE IF Len(d) < TrailerSize THEN "seek"
  ELSE "ok"

Stop(o, w) ==
  /\ pc' = "done"
  /\ outcome' = o
  /\ why' = w

\* parseDocument up to and including validateDocumentTrailer
ParseHeader ==
  /\ UNCHANGED parked
  /\ pc = "start"
  /\ LET h  == headerCheck(doc)
         to == Len(doc) - TrailerSize
         t  == ReadTrailer(doc, to)
         c  == validateDocumentTrailer(t, to)
     IN  IF h # "ok"
         THEN /\ Stop("error", h)
              /\ UNCHANGED <<trailer, trailerOffset>>
         ELSE /\ trailer' = t
              /\ trailerOffset' = to
              /\ IF c # "ok" THEN Stop("error", c)
                 ELSE pc' = "offtable" /\ UNCHANGED <<outcome, why>>
  /\ UNCHANGED <<doc, offtable, objrefs, heap, delayedObjects, stack, k, pval,
                 lookups, payload, selfref, parses>>
  /\ UNCHANGED genVars

\* the offset an entry of the offset table must not exceed
maxOffset(t) == ToNat(t.OffsetTableOffset) - 1

\* TRUE when an offset table entry is rejected
OffsetRejects(t, off) == U64Less(U64(maxOffset(t)), off)

\* the loop that reads the offset table
ReadOffsetTable ==
  /\ UNCHANGED parked
  /\ pc = "offtable"
  /\ LET n     == ToNat(trailer.NumObjects)
         oto   == ToNat(trailer.OffsetTableOffset)
         e(i)  == readSizedInt(doc, oto + (i - 1) * trailer.OffsetIntSize,
                               trailer.OffsetIntSize)
     IN  IF ~e(1).ok THEN Stop("error", "intsize") /\ UNCHANGED offtable
         ELSE IF \E i \in 1..n : OffsetRejects(trailer, e(i).lo)
         THEN Stop("error", "offset") /\ UNCHANGED offtable
         ELSE /\ offtable' = [i \in 1..n |-> ToNat(e(i).lo)]
              /\ pc' = "objects"
              /\ UNCHANGED <<outcome, why>>
  /\ UNCHANGED <<doc, trailer, trailerOffset, objrefs, heap, delayedObjects,
                 stack, k, pval, lookups, payload, selfref, parses>>
  /\ UNCHANGED genVars

\* ------------------------------------------------------------------
\* valueAtOffset and the loops of the containers
\* ------------------------------------------------------------------
\* the part of the parser state that a call of valueAtOffset changes
Cur ==
  [objrefs |-> objrefs, heap |-> heap, delayed |-> delayedObjects,
   lookups |-> lookups, payload |-> payload, selfref |-> selfref,
   parses |-> parses]

\* m[key] = v
Put(m, key, v) ==
  [x \in DOMAIN m \cup {key} |-> IF x = key THEN v ELSE m[x]]

Bump(m, key) ==
  [x \in DOMAIN m \cup {key} |->
     (IF x \in DOMAIN m THEN m[x] ELSE 0) + (IF x = key THEN 1 ELSE 0)]

NoFrame == [off |-> 0, cnt |-> 0, indices |-> <<>>, i |-> 0, id |-> 0, lo |-> 0, hi |-> -1]

Out(r, v, s, frame, w) == [res |-> r, v |-> v, s |-> s, frame |-> frame, why |-> w]

\* the second loop of an array object: looks each element up in the
\* offset table, rejects a self-reference, records the delayed slot
arrayLoop(s, off, r) ==
  LET id     == Len(s.heap) + 1
      n      == r.cnt
      has(i) == OfftableHas(offtable, r.indices[i])
      stop   == {i \in 1..n :
                   ~has(i) \/ SelfRefRejects(off, offtable[r.indices[i] + 1])}
      first  == CHOOSE i \in stop : \A j \in stop : i <= j
      used(m) == s.lookups \cup {r.indices[i] : i \in 1..m}
      arr    == [kind |-> "array", keys |-> <<>>, values |-> [i \in 1..n |-> Nil]]
  IN  IF stop # {}
      THEN Out(IF has(first) THEN "error" ELSE "fault", Nil,
               [s EXCEPT !.lookups = used(first)], NoFrame, "selfarray")
      ELSE Out("value", cfArray(id),
               [s EXCEPT !.heap = Append(@, arr),
                         !.delayed = @ \cup {[id |-> id, i |-> i,
                                              off |-> offtable[r.indices[i] + 1]]
                                             : i \in 1..n},
                         !.lookups = used(n),
                         !.payload = @ \cup {[off |-> off, lo |-> r.lo, hi |-> r.hi]},
                         !.objrefs = Put(@, off, cfArray(id))],
               NoFrame, "")

\* valueAtOffset once its parseTagAtOffset call has come to r: a value is
\* memoised in p.objrefs; a dictionary comes back as the frame of its key
\* loop, which the caller has to run
parsedAtOffset(s, off, r) ==
  LET self == r.res \in {"array", "dict"}
              /\ \E i \in 1..Len(r.indices) :
                    /\ OfftableHas(offtable, r.indices[i])
                    /\ offtable[r.indices[i] + 1] = off
      s1 == [s EXCEPT !.parses = Bump(@, off),
                      !.selfref = IF self THEN @ \cup {off} ELSE @]
      id == Len(s.heap) + 1
      dict == [kind |-> "dict", keys |-> [i \in 1..r.cnt |-> <<>>],
               values |-> [i \in 1..r.cnt |-> Nil]]
  IN  CASE r.res = "value" ->
             Out("value", r.v,
                 [s1 EXCEPT !.objrefs = Put(@, off, r.v),
                            !.payload = IF r.v.kind \in {"data", "string"}
                                        THEN @ \cup {[off |-> off, lo |-> r.lo, hi |-> r.hi]}
                                        ELSE @],
                 NoFrame, "")
        [] r.res = "array" -> arrayLoop(s1, off, r)
        [] r.res = "dict" ->
             Out("dict", Nil, [s1 EXCEPT !.heap = Append(@, dict)],
                 [off |-> off, cnt |-> r.cnt, indices |-> r.indices, i |-> 1,
                  id |-> id, lo |-> r.lo, hi |-> r.hi], "")
        [] OTHER -> Out(r.res, Nil, s1, NoFrame, "parse")

\* valueAtOffset(off) from parser state s: the memoised value, or one
\* parseTagAtOffset call
valueAtOffset(s, off) ==
  IF off \in DOMAIN s.objrefs THEN Out("value", s.objrefs[off], s, NoFrame, "")
  ELSE parsedAtOffset(s, off, parseTagAtOffset(doc, trailer, off))

Commit(s) ==
  /\ objrefs' = s.objrefs
  /\ heap' = s.heap
  /\ delayedObjects' = s.delayed
  /\ lookups' = s.lookups
  /\ payload' = s.payload
  /\ selfref' = s.selfref
  /\ parses' = s.parses

\* no second instance
NoInstance == [pc |-> "none"]

\* an exhausted goroutine stack is a fatal error of the Go runtime: it ends
\* the process, and with it an instance i that has not returned yet
Killed(i) ==
  IF i.pc \in {"none", "done"} THEN i
  ELSE [i EXCEPT !.pc = "done", !.outcome = "killed", !.why = "stack"]

\* a nested parseTagAtOffset call: the goroutine stack is finite
Push(frame) ==
  IF Len(stack) >= MaxDepth
  THEN Stop("overflow", "stack") /\ UNCHANGED stack
  ELSE stack' = Append(stack, frame) /\ UNCHANGED <<pc, outcome, why>>

\* one iteration of "for _, off := range p.offtable { p.valueAtOffset(off) }"
ParseObjects ==
  /\ pc = "objects"
  /\ stack = <<>>
  /\ k <= Len(offtable)
  /\ \E o \in {valueAtOffset(Cur, offtable[k])} :
       /\ Commit(o.s)
       /\ CASE o.res = "value" ->
                 k' = k + 1 /\ UNCHANGED <<stack, pc, outcome, why>>
            [] o.res = "dict" -> Push(o.frame) /\ UNCHANGED k
            [] OTHER -> Stop(o.res, o.why) /\ UNCHANGED <<stack, k>>
  /\ UNCHANGED <<doc, trailer, trailerOffset, offtable, pval>>
  /\ UNCHANGED genVars
  /\ parked' = IF outcome' = "overflow" THEN Killed(parked) ELSE parked

\* the check on the value of a dictionary key: TRUE when it is rejected
KeyRejects(kval) == kval.kind # "string"

\* one iteration of the key loop of the dictionary on top of the stack
DictStep ==
  /\ pc = "objects"
  /\ stack # <<>>
  /\ LET top  == stack[Len(stack)]
         i    == top.i
         ki   == top.indices[i]
         vi   == top.indices[i + top.cnt]
         koff == offtable[ki + 1]
         voff == offtable[vi + 1]
         s0   == [Cur EXCEPT !.lookups = @ \cup {ki, vi}]
         key(o) == [o.s EXCEPT !.heap[top.id].keys[i] = o.v.val,
                               !.delayed = @ \cup {[id |-> top.id, i |-> i, off |-> voff]}]
     IN  /\ i <= top.cnt
         /\ IF ~OfftableHas(offtable, ki) \/ ~OfftableHas(offtable, vi)
            THEN Commit(s0) /\ Stop("fault", "index") /\ UNCHANGED stack
            ELSE IF SelfRefRejects(top.off, koff)
            THEN Commit(s0) /\ Stop("error", "selfkey") /\ UNCHANGED stack
            ELSE IF SelfRefRejects(top.off, voff)
            THEN Commit(s0) /\ Stop("error", "selfvalue") /\ UNCHANGED stack
            ELSE \E o \in {valueAtOffset(s0, koff)} :
                   CASE o.res = "value" ->
                          IF KeyRejects(o.v)
                          THEN Commit(o.s) /\ Stop("error", "nonstring") /\ UNCHANGED stack
                          ELSE /\ Commit(key(o))
                               /\ stack' = [stack EXCEPT ![Len(stack)].i = i + 1]
                               /\ UNCHANGED <<pc, outcome, why>>
                     [] o.res = "dict" -> Commit(o.s) /\ Push(o.frame)
                     [] OTHER -> Commit(o.s) /\ Stop(o.res, o.why) /\ UNCHANGED stack
  /\ UNCHANGED <<doc, trailer, trailerOffset, offtable, k, pval>>
  /\ UNCHANGED genVars
  /\ parked' = IF outcome' = "overflow" THEN Killed(parked) ELSE parked

\* the dictionary on top of the stack has run its key loop: its
\* parseTagAtOffset call returns and valueAtOffset memoises it; a caller
\* that is itself a key loop then finds a key that is not a string
DictReturn ==
  /\ UNCHANGED parked
  /\ pc = "objects"
  /\ stack # <<>>
  /\ LET top == stack[Len(stack)]
     IN  /\ top.i > top.cnt
         /\ objrefs' = Put(objrefs, top.off, cfDictionary(top.id))
         /\ payload' = payload \cup {[off |-> top.off, lo |-> top.lo, hi |-> top.hi]}
         /\ stack' = SubSeq(stack, 1, Len(stack) - 1)
         /\ IF Len(stack) = 1
            THEN k' = k + 1 /\ UNCHANGED <<pc, outcome, why>>
            ELSE IF KeyRejects(cfDictionary(top.id))
            THEN Stop("error", "nonstring") /\ UNCHANGED k
            ELSE UNCHANGED <<k, pc, outcome, why>>
  /\ UNCHANGED <<doc, trailer, trailerOffset, offtable, heap, delayedObjects,
                 pval, lookups, selfref, parses>>
  /\ UNCHANGED genVars

\* the root handed out with the loop over p.delayedObjects left out
resolveDelayed_Skipped(h, delayed, refs) == h

\* the heap after "*pvalp = pval" has run for every entry of the map
resolveDelayed(h, delayed, refs) ==
  [id \in DOMAIN h |->
     [h[id] EXCEPT !.values =
        [i \in DOMAIN h[id].values |->
           IF \E s \in delayed : s.id = id /\ s.i = i
           THEN refs[(CHOOSE s \in delayed : s.id = id /\ s.i = i).off]
           ELSE h[id].values[i]]]]

\* the loop over p.delayedObjects: every recorded slot receives the
\* object decoded at the offset it refers to
Resolve ==
  /\ UNCHANGED parked
  /\ pc = "objects"
  /\ stack = <<>>
  /\ k > Len(offtable)
  /\ IF \E s \in delayedObjects : s.off \notin DOMAIN objrefs
     THEN Stop("error", "unreferenced") /\ UNCHANGED heap
     ELSE /\ heap' = resolveDelayed(heap, delayedObjects, objrefs)
          /\ pc' = "resolved"
          /\ UNCHANGED <<outcome, why>>
  /\ UNCHANGED <<doc, trailer, trailerOffset, offtable, objrefs, delayedObjects,
                 stack, k, pval, lookups, payload, selfref, parses>>
  /\ UNCHANGED genVars

\* pval = p.valueAtOffset(p.offtable[p.trailer.TopObject]); return
Finish ==
  /\ UNCHANGED parked
  /\ pc = "resolved"
  /\ LET top == ToNat(trailer.TopObject)
     IN  IF ~OfftableHas(offtable, top)
         THEN Stop("fault", "index") /\ UNCHANGED <<pval, objrefs, heap,
                 delayedObjects, lookups, payload, selfref, parses>>
         ELSE \E o \in {valueAtOffset([Cur EXCEPT !.lookups = @ \cup {top}],
                                      offtable[top + 1])} :
                /\ Commit(o.s)
                /\ IF o.res = "value"
                   THEN pval' = o.v /\ Stop("ok", "")
                   ELSE UNCHANGED pval
                        /\ Stop(IF o.res = "dict" THEN "error" ELSE o.res, o.why)
  /\ UNCHANGED <<doc, trailer, trailerOffset, offtable, stack, k>>
  /\ UNCHANGED genVars

\* ------------------------------------------------------------------
\* Documents handed to the parser
\* ------------------------------------------------------------------
\* offset of object i when the objects follow the header back to back
StartOf(objs, i) == 8 + Len(Concat(SubSeq(objs, 1, i - 1)))

\* a document: header, objects, offset table with entries of w bytes,
\* and a trailer holding the given fields
BuildDoc(objs, offs, w, ois, ors, num, top, oto) ==
  Header \o Concat(objs) \o Concat([i \in 1..Len(offs) |-> IntBytes(offs[i], w)])
         \o TrailerBytes(ois, ors, num, top, oto)

\* a document whose offset table and trailer describe its objects
WellFormed(objs, ors, top) ==
  BuildDoc(objs, [i \in 1..Len(objs) |-> StartOf(objs, i)], 1, 1, ors,
           U64(Len(objs)), U64(top), U64(8 + Len(Concat(objs))))

\* objects of a document of n objects, references one byte wide;
\* reference n is out of range
Leaves == {<<9>>, <<81, 97>>}

Arrays(n) == {<<160>>} \cup {<<161, r>> : r \in 0..n}

Dicts(n) == {<<208>>} \cup {<<209, a, b>> : a \in 0..n, b \in {0, 1, n}}

Menu(n) == Leaves \cup Arrays(n) \cup Dicts(n)

\* documents with a valid trailer and arbitrary object graphs
GraphDocs ==
  UNION {{WellFormed(objs, 1, 0) : objs \in [1..n -> Menu(n)]} : n \in 1..MaxObjects}

\* a dictionary of two entries over a string or a dictionary (objects 1, 2);
\* reference 3 is out of range
KeyedDocs ==
  {WellFormed(<<<<210, a, b, 1, 1>>, x, y>>, 1, 0) :
     a, b \in 0..3, x, y \in {<<81, 97>>, <<209, 0, 0>>}}

\* an array and a dictionary that refer to an object of tag 0x00 or 0x0F
NullDocs ==
  {WellFormed(<<<<161, 1>>, x>>, 1, 0) : x \in {<<0>>, <<15>>, <<8>>}}
    \cup {WellFormed(<<<<209, 1, 2>>, <<81, 97>>, x>>, 1, 0) : x \in {<<0>>, <<15>>, <<9>>}}

\* one boolean and an offset table of one entry declared two bytes wide,
\* of which one byte lies before the trailer: the second byte of the entry
\* is the first, unused, byte of the trailer
SpillDocs ==
  {Header \o <<9, 0>> \o <<b, 0, 0, 0, 0, 0, 2, 1>> \o U64(1) \o U64(0) \o U64(9) :
     b \in {8, 9}}

\* one object of every tag, legal and illegal sizes
Atoms ==
  {<<0>>, <<8>>, <<9>>, <<15>>, <<16, 5>>, <<17, 1, 2>>, <<19>> \o AllOnes64,
   <<20>> \o AllOnes64 \o AllOnes64, <<20>> \o Zero64 \o AllOnes64, <<21>>,
   <<33, 0, 0>>, <<34, 61, 204, 204, 205>>, <<35, 63, 240, 0, 0, 0, 0, 0, 0>>,
   <<51, 0, 0, 0, 0, 0, 0, 0, 0>>, <<64>>, <<65, 7>>, <<80>>, <<81, 97>>,
   <<97, 0, 233>>, <<98, 216, 61, 222, 0>>, <<112>>, <<128, 7>>, <<129, 1, 2>>,
   <<144>>, <<176>>, <<192>>, <<224>>, <<240>>,
   <<48>> \o Zero64, <<63>> \o Zero64, <<1>>}

AtomDocs == {WellFormed(<<x>>, 1, 0) : x \in Atoms}

\* two objects, one of them an atom that the top object may or may not refer to
StrayDocs ==
  {WellFormed(<<x, y>>, 1, top) :
     x \in {<<161, 1>>, <<160>>, <<9>>}, y \in {<<48>> \o Zero64, <<112>>, <<240>>, <<36>>},
     top \in {0, 1}}

\* one integer object of 16 bytes: high 64 bits, low 64 bits
Highs ==
  {Zero64, AllOnes64, <<0, 0, 0, 0, 0, 0, 0, 1>>, <<128, 0, 0, 0, 0, 0, 0, 0>>,
   <<255, 255, 255, 255, 255, 255, 255, 254>>, <<127, 255, 255, 255, 255, 255, 255, 255>>}

Lows ==
  {Zero64, AllOnes64, <<0, 0, 0, 0, 0, 0, 0, 5>>, <<128, 0, 0, 0, 0, 0, 0, 0>>,
   <<127, 255, 255, 255, 255, 255, 255, 255>>, <<255, 255, 255, 255, 255, 255, 255, 133>>}

WideIntDocs == {WellFormed(<<<<20>> \o hi \o lo>>, 1, 0) : hi \in Highs, lo \in Lows}

\* an array of one element (object 1) with references of w bytes, and a boolean
TwoObjects(w) == <<<<161>> \o IntBytes(1, w), <<9>>>>

Huge64 == {<<128, 0, 0, 0, 0, 0, 0, 0>>, <<128, 0, 0, 0, 0, 0, 0, 1>>,
           <<255, 255, 255, 255, 255, 255, 255, 246>>, AllOnes64}

\* candidate OffsetTableOffset values for a document whose table is at c
OtoChoice(c, sel) ==
  IF sel = 0 THEN U64(8) ELSE IF sel = 1 THEN U64(9) ELSE IF sel = 6 THEN AllOnes64
  ELSE U64(c + sel - 2)

\* documents whose trailer fields are arbitrary
TrailerDocs ==
  {BuildDoc(TwoObjects(w), <<8, 9 + w>>, 1, ois, ors, num, top, OtoChoice(10 + w, sel)) :
     w \in {1, 8}, ois \in {0, 1, 2, 8}, ors \in {0, 1, 2, 8, 32},
     num \in {U64(0), U64(1), U64(2), U64(3)} \cup Huge64,
     top \in {U64(0), U64(1), U64(2)},
     sel \in 0..6}

\* one boolean, every reference width
RefSizeDocs ==
  {BuildDoc(<<<<9>>>>, <<8>>, 1, 1, ors, U64(1), U64(0), U64(9)) : ors \in 0..255}

\* documents whose offset table entries are arbitrary
OffsetDocs ==
  {BuildDoc(TwoObjects(1), <<a, b>>, 1, 1, 1, U64(2), U64(0), U64(11)) :
     a, b \in 0..12}

\* counted objects next to the offset table whose declared count and
\* whose bytes disagree: a string (object 0), then the counted object
Zeros(n) == [i \in 1..n |-> 0]

Counted ==
  {<<tag * 16 + c>> \o Zeros(b) : tag \in {4, 5, 6, 10, 13}, c \in 0..3, b \in 0..3}
  \cup {<<tag * 16 + 15, 19>> \o c \o Zeros(b) :
          tag \in {4, 5, 6, 10, 13}, c \in Huge64 \cup {U64(1)}, b \in 0..1}
  \cup {<<tag * 16 + 15, 16 + w>> : tag \in {4, 10}, w \in {0, 5}}

PayloadDocs ==
  {WellFormed(<<<<81, 97>>, x>>, ors, 1) : x \in Counted, ors \in {1, 2}}

Docs ==
  GraphDocs \cup KeyedDocs \cup AtomDocs \cup StrayDocs \cup WideIntDocs \cup TrailerDocs \cup RefSizeDocs
            \cup OffsetDocs \cup PayloadDocs \cup NullDocs \cup SpillDocs

\* ------------------------------------------------------------------
\* Specification
\* ------------------------------------------------------------------
\* values handed to the generator
One64 == <<63, 240, 0, 0, 0, 0, 0, 0>>

Tenth64 == <<63, 185, 153, 153, 153, 153, 153, 154>>

TreeScalars ==
  {cfBoolean(TRUE), cfNumber(FALSE, U64(5)), cfNumber(TRUE, AllOnes64),
   cfString(<<97>>), cfData(<<1>>), cfUID(U64(7)), cfReal(TRUE, One64),
   cfReal(FALSE, Tenth64), cfDate(Zero64)}

\* values of the entries of the longer containers
Elements ==
  {cfBoolean(TRUE), cfNumber(TRUE, AllOnes64), cfString(<<97>>), cfReal(FALSE, Tenth64)}

Valued == {cfNumber(FALSE, U64(5)), cfString(<<97>>)}

TreeKeys == {<<97>>, <<98>>}

ArrayNode(vs) == [kind |-> "array", keys |-> <<>>, values |-> vs]

DictNode(ks, vs) == [kind |-> "dict", keys |-> ks, values |-> vs]

Tree(r, ns) == [root |-> r, nodes |-> ns]

Trees ==
  {Tree(v, <<>>) : v \in TreeScalars}
  \cup {Tree(cfArray(1), <<ArrayNode(<<v>>)>>) : v \in TreeScalars}
  \cup {Tree(cfDictionary(1), <<DictNode(<<<<97>>>>, <<v>>)>>) : v \in TreeScalars}
  \cup UNION {{Tree(cfArray(1), <<ArrayNode(vs)>>) : vs \in [1..n -> Elements]}
                : n \in 0..MaxLen}
  \cup UNION {{Tree(cfDictionary(1), <<DictNode(ks, vs)>>) :
                 ks \in [1..n -> TreeKeys], vs \in [1..n -> Valued]}
                : n \in 0..MaxLen}
  \cup {Tree(cfArray(1), <<ArrayNode(<<c>>), n2>>) :
          c \in {cfArray(2), cfDictionary(2)},
          n2 \in {ArrayNode(<<v>>) : v \in TreeScalars}
                 \cup {DictNode(<<<<98>>>>, <<v>>) : v \in TreeScalars}}
  \cup {Tree(cfDictionary(1), <<DictNode(<<<<97>>>>, <<c>>), n2>>) :
          c \in {cfArray(2), cfDictionary(2)},
          n2 \in {ArrayNode(<<v>>) : v \in TreeScalars}
                 \cup {DictNode(<<<<98>>>>, <<v>>) : v \in TreeScalars}}

\* a root array of two containers of one entry each: two containers built
\* apart with the same content (j = 3), or one container held twice (j = 2)
Twins ==
  {Tree(cfArray(1), <<ArrayNode(<<Val(c, FALSE, <<2>>), Val(c, FALSE, <<j>>)>>), n, n>>) :
     c \in {"array", "dict"}, j \in {2, 3},
     n \in {ArrayNode(<<v>>) : v \in Valued}
           \cup {DictNode(<<<<97>>>>, <<v>>) : v \in Valued}}

\* single values whose encoding is known byte for byte
Hello == <<72, 101, 108, 108, 111>>

Literals == {Tree(cfString(Hello), <<>>), Tree(cfBoolean(FALSE), <<>>)}

\* integers around the limits of the widths, and negative ones
Magnitudes ==
  {Zero64, U64(255), U64(256), U64(65535), U64(65536),
   <<0, 0, 0, 0, 255, 255, 255, 255>>, <<0, 0, 0, 1, 0, 0, 0, 0>>,
   <<127, 255, 255, 255, 255, 255, 255, 255>>}

Negatives ==
  {AllOnes64, <<255, 255, 255, 255, 255, 255, 255, 133>>, <<128, 0, 0, 0, 0, 0, 0, 0>>,
   <<255, 255, 255, 255, 255, 255, 255, 0>>}

Numbers ==
  {Tree(cfNumber(FALSE, m), <<>>) : m \in Magnitudes}
  \cup {Tree(cfNumber(TRUE, m), <<>>) : m \in Negatives}

\* strings and arrays with counts around the limit of the low nibble
Letters(n) == [i \in 1..n |-> 97 + (i % 26)]

Lengths ==
  {Tree(cfString(Letters(n)), <<>>) : n \in {14, 15, 16, 40}}
  \cup {Tree(cfArray(1), <<ArrayNode([i \in 1..n |-> cfBoolean(i % 2 = 0)])>>) : n \in {14, 15, 16}}

\* a dictionary of three entries listed in each of the six orders, alone,
\* in an array next to one of its keys, and as a value of another dictionary
Listed(o) ==
  LET Entries == <<[key |-> <<97>>, value |-> cfBoolean(TRUE)],
                   [key |-> <<97, 98>>, value |-> cfString(<<98>>)],
                   [key |-> <<98>>, value |-> cfNumber(FALSE, U64(5))]>>
  IN  DictNode([i \in 1..3 |-> Entries[o[i]].key], [i \in 1..3 |-> Entries[o[i]].value])

Shuffled ==
  LET Orders == {<<1, 2, 3>>, <<1, 3, 2>>, <<2, 1, 3>>, <<2, 3, 1>>, <<3, 1, 2>>, <<3, 2, 1>>}
  IN  {Tree(cfDictionary(1), <<Listed(o)>>) : o \in Orders}
      \cup {Tree(cfArray(1), <<ArrayNode(<<cfString(<<98>>), cfDictionary(2)>>), Listed(o)>>) :
              o \in Orders}
      \cup {Tree(cfDictionary(1), <<DictNode(<<<<122>>, <<97>>>>,
                                             <<cfDictionary(2), cfString(<<122>>)>>),
                                    Listed(o)>>) : o \in Orders}

\* strings, as the UTF-8 bytes of a Go string: empty, "e-acute" (U+00E9),
\* "a" and U+00E9, U+00FF, U+0100, U+4E16, "H" and U+4E16, U+1F600, and a
\* byte that is not UTF-8
Texts ==
  {Tree(cfString(str), <<>>) :
     str \in {<<>>, <<195, 169>>, <<97, 195, 169>>, <<195, 191>>, <<196, 128>>,
              <<228, 184, 150>>, <<72, 228, 184, 150>>, <<240, 159, 152, 128>>, <<255>>}}

\* documents of 255, 256 and 257 objects, and documents whose objects end
\* at byte 255 and at byte 256.  Crowd(n) is a tree of n objects: an array
\* of 15 arrays of booleans, the first of n - 240 booleans and the others
\* of 16.  Brim(last) is an array of nine strings, the last of them of
\* `last` bytes: its objects end at byte 225 + last
Crowds ==
  LET Crowd(n) ==
        Tree(cfArray(1),
             <<ArrayNode([i \in 1..15 |-> cfArray(i + 1)])>>
               \o [i \in 1..15 |->
                     ArrayNode([j \in 1..(IF i = 1 THEN n - 240 ELSE 16) |->
                                  cfBoolean(j % 2 = 0)])])
      Brim(last) ==
        Tree(cfArray(1),
             <<ArrayNode([i \in 1..9 |->
                            cfString(Letters(IF i = 9 THEN last ELSE 18 + i))])>>)
  IN  {Crowd(255), Crowd(256), Crowd(257), Brim(30), Brim(31)}

\* a dictionary that lists the key "a" twice, after or around the key "b"
Repeated ==
  {Tree(cfDictionary(1),
        <<DictNode(ks, <<cfBoolean(TRUE), cfNumber(FALSE, U64(5)), cfString(<<98>>)>>)>>) :
     ks \in {<<<<98>>, <<97>>, <<97>>>>, <<<<97>>, <<98>>, <<97>>>>}}

\* one value held twice, by an array and by a dictionary
Doubles ==
  {Tree(cfArray(1), <<ArrayNode(<<v, v>>)>>) : v \in {cfUID(U64(7)), cfBoolean(TRUE)}}
    \cup {Tree(cfDictionary(1), <<DictNode(<<<<97>>, <<98>>>>, <<v, v>>)>>) :
            v \in {cfUID(U64(7)), cfBoolean(FALSE)}}

\* reals held by an array or a dictionary, and a NaN as the root; the
\* float64 bit patterns are those of a NaN, of negative zero and of
\* positive infinity
Reals ==
  LET NaN64     == <<127, 248, 0, 0, 0, 0, 0, 0>>
      NegZero64 == <<128, 0, 0, 0, 0, 0, 0, 0>>
      Inf64     == <<127, 240, 0, 0, 0, 0, 0, 0>>
  IN  {Tree(cfArray(1), <<ArrayNode(vs)>>) :
         vs \in {<<cfReal(TRUE, NaN64)>>, <<cfReal(FALSE, NaN64)>>, <<cfReal(TRUE, Inf64)>>,
                 <<cfReal(TRUE, Zero64), cfReal(TRUE, NegZero64)>>,
                 <<cfReal(TRUE, One64), cfReal(FALSE, One64), cfReal(TRUE, One64)>>}}
        \cup {Tree(cfDictionary(1), <<DictNode(<<<<97>>>>, <<cfReal(TRUE, NaN64)>>)>>),
              Tree(cfReal(TRUE, NaN64), <<>>)}

\* a tree is well-typed: a reference to container 2 has the kind of node 2
WellTyped(t) ==
  \A i \in 1..Len(t.nodes) : \A j \in 1..Len(t.nodes[i].values) :
    LET v == t.nodes[i].values[j]
    IN  IsContainer(v) => t.nodes[v.val[1]].kind = v.kind

ParserInit ==
  /\ trailer = NoTrailer
  /\ trailerOffset = 0
  /\ offtable = <<>>
  /\ objrefs = <<>>
  /\ heap = <<>>
  /\ delayedObjects = {}
  /\ stack = <<>>
  /\ k = 1
  /\ pval = Nil
  /\ outcome = "running"
  /\ why = ""
  /\ lookups = {}
  /\ payload = {}
  /\ selfref = {}
  /\ parses = <<>>

Init ==
  /\ ParserInit
  /\ parked = NoInstance
  /\ objmap = <<>>
  /\ objtable = <<>>
  /\ \/ /\ source = "bytes"
        /\ doc \in Docs
        /\ pc = "start"
        /\ root = Nil
        /\ given = <<>>
        /\ nodes = <<>>
     \/ /\ source = "tree"
        /\ doc = <<>>
        /\ pc = "flatten"
        /\ \E t \in Trees \cup Twins \cup Literals \cup Numbers \cup Lengths \cup Shuffled \cup Texts
                   \cup Crowds \cup Reals \cup Repeated \cup Doubles :
             /\ WellTyped(t)
             /\ root = t.root
             /\ given = t.nodes
             /\ nodes = t.nodes

parserVars == <<trailer, trailerOffset, offtable, objrefs, heap, delayedObjects,
                stack, k, pval, lookups, payload, selfref, parses>>

\* generateDocument, first pass: p.flattenPlistValue(root)
Flatten ==
  /\ UNCHANGED parked
  /\ pc = "flatten"
  /\ \E g \in {flattenPlistValue([objmap |-> <<>>, objtable |-> <<>>, nodes |-> nodes],
                                  root)} :
       /\ objmap' = g.objmap
       /\ objtable' = g.objtable
       /\ nodes' = g.nodes
  /\ pc' = "serialize"
  /\ UNCHANGED <<doc, source, root, given, outcome, why>>
  /\ UNCHANGED parserVars

\* generateDocument, second pass: header, objects, offset table, trailer;
\* the bytes written are then handed to a parser
Serialize ==
  /\ UNCHANGED parked
  /\ pc = "serialize"
  /\ \E out \in {generateDocument([objmap |-> objmap, objtable |-> objtable,
                                     nodes |-> nodes], root)} :
       /\ doc' = out.bytes
       /\ IF out.ok THEN pc' = "start" /\ UNCHANGED <<outcome, why>>
          ELSE Stop("error", "serialize")
  /\ UNCHANGED genVars
  /\ UNCHANGED parserVars

Next ==
  \/ Flatten
  \/ Serialize
  \/ ParseHeader
  \/ ReadOffsetTable
  \/ ParseObjects
  \/ DictStep
  \/ DictReturn
  \/ Resolve
  \/ Finish

Spec == Init /\ [][Next]_vars

\* ------------------------------------------------------------------
\* Two instances, each with a document of its own, run interleaved
\* ------------------------------------------------------------------
\* the fields of the instance that runs
Running ==
  [doc |-> doc, pc |-> pc, trailer |-> trailer, trailerOffset |-> trailerOffset,
   offtable |-> offtable, objrefs |-> objrefs, heap |-> heap,
   delayedObjects |-> delayedObjects, stack |-> stack, k |-> k, pval |-> pval,
   outcome |-> outcome, why |-> why, lookups |-> lookups, payload |-> payload,
   selfref |-> selfref, parses |-> parses, source |-> source, root |-> root,
   given |-> given, nodes |-> nodes, objmap |-> objmap, objtable |-> objtable]

\* a new parser over the bytes d
NewParser(d) ==
  [doc |-> d, pc |-> "start", trailer |-> NoTrailer, trailerOffset |-> 0,
   offtable |-> <<>>, objrefs |-> <<>>, heap |-> <<>>, delayedObjects |-> {},
   stack |-> <<>>, k |-> 1, pval |-> Nil, outcome |-> "running", why |-> "",
   lookups |-> {}, payload |-> {}, selfref |-> {}, parses |-> <<>>,
   source |-> "bytes", root |-> Nil, given |-> <<>>, nodes |-> <<>>,
   objmap |-> <<>>, objtable |-> <<>>]

\* a new generator handed the tree t
NewGenerator(t) ==
  [NewParser(<<>>) EXCEPT !.pc = "flatten", !.source = "tree", !.root = t.root,
                          !.given = t.nodes, !.nodes = t.nodes]

\* the documents and values of the two instances
PairDocs ==
  {WellFormed(<<<<209, 1, 2>>, <<81, 97>>, <<161, 1>>>>, 1, 0),
   WellFormed(<<<<209, 1, 1>>, <<209, 0, 0>>>>, 1, 0),
   WellFormed(<<<<161, 1>>, <<240>>>>, 1, 0),
   WellFormed(<<<<81, 97>>>>, 1, 0)}

PairTrees ==
  {Tree(cfString(<<97>>), <<>>),
   Tree(cfArray(1), <<ArrayNode(<<cfString(<<97>>), cfNumber(FALSE, U64(5))>>)>>),
   Tree(cfDictionary(1), <<DictNode(<<<<98>>, <<97>>>>,
                                    <<cfString(<<97>>), cfBoolean(TRUE)>>)>>)}

Instances == {NewParser(d) : d \in PairDocs} \cup {NewGenerator(t) : t \in PairTrees}

\* the instance r is the one that runs
Loaded(r) ==
  /\ doc = r.doc
  /\ pc = r.pc
  /\ trailer = r.trailer
  /\ trailerOffset = r.trailerOffset
  /\ offtable = r.offtable
  /\ objrefs = r.objrefs
  /\ heap = r.heap
  /\ delayedObjects = r.delayedObjects
  /\ stack = r.stack
  /\ k = r.k
  /\ pval = r.pval
  /\ outcome = r.outcome
  /\ why = r.why
  /\ lookups = r.lookups
  /\ payload = r.payload
  /\ selfref = r.selfref
  /\ parses = r.parses
  /\ source = r.source
  /\ root = r.root
  /\ given = r.given
  /\ nodes = r.nodes
  /\ objmap = r.objmap
  /\ objtable = r.objtable

InitPair ==
  \E a, b \in Instances :
    /\ Loaded(a)
    /\ parked = b

\* the scheduler takes the running instance off and puts the other one on
Switch ==
  /\ parked # NoInstance
  /\ parked' = Running
  /\ doc' = parked.doc
  /\ pc' = parked.pc
  /\ trailer' = parked.trailer
  /\ trailerOffset' = parked.trailerOffset
  /\ offtable' = parked.offtable
  /\ objrefs' = parked.objrefs
  /\ heap' = parked.heap
  /\ delayedObjects' = parked.delayedObjects
  /\ stack' = parked.stack
  /\ k' = parked.k
  /\ pval' = parked.pval
  /\ outcome' = parked.outcome
  /\ why' = parked.why
  /\ lookups' = parked.lookups
  /\ payload' = parked.payload
  /\ selfref' = parked.selfref
  /\ parses' = parked.parses
  /\ source' = parked.source
  /\ root' = parked.root
  /\ given' = parked.given
  /\ nodes' = parked.nodes
  /\ objmap' = parked.objmap
  /\ objtable' = parked.objtable

NextPair ==
  \/ Flatten
  \/ Serialize
  \/ ParseHeader
  \/ ReadOffsetTable
  \/ ParseObjects
  \/ DictStep
  \/ DictReturn
  \/ Resolve
  \/ Finish
  \/ Switch

Pair == InitPair /\ [][NextPair]_vars

\* ------------------------------------------------------------------
\* Properties
\* ------------------------------------------------------------------
OTO == ToNat(trailer.OffsetTableOffset)

\* the containers a container refers to through its value slots
Children(id) ==
  {heap[id].values[i].val[1] :
     i \in {j \in DOMAIN heap[id].values : IsContainer(heap[id].values[j])}}

\* the containers reachable from id in at most n steps (one step at least)
RECURSIVE ReachIn(_, _)
ReachIn(id, n) ==
  IF n = 1 THEN Children(id)
  ELSE LET r == ReachIn(id, n - 1)
       IN  r \cup UNION {Children(c) : c \in r}

Cyclic == \E id \in DOMAIN heap : id \in ReachIn(id, Len(heap))

\* a value with its containers unfolded; a dictionary becomes the set of
\* its entries with their multiplicities (the order of the entries is
\* dropped), a 32-bit real is taken at 32-bit precision
RECURSIVE Canon(_, _)
Canon(h, v) ==
  LET n == h[v.val[1]]
      item(i) == Canon(h, n.values[i])
  IN  IF v.kind = "array"
      THEN Val("array", FALSE, [i \in 1..Len(n.values) |-> item(i)])
      ELSE IF v.kind = "dict"
      THEN Val("dict", FALSE,
               {<<n.keys[i], item(i),
                  Cardinality({j \in 1..Len(n.keys) :
                                 n.keys[j] = n.keys[i] /\ item(j) = item(i)})>>
                : i \in 1..Len(n.keys)})
      ELSE IF v.kind = "real" /\ ~v.flag
      THEN cfReal(FALSE, F32ToF64(F64ToF32(v.val)))
      ELSE v

\* C1: decoding the bytes written for a value tree succeeds and yields a
\* tree equal to it up to the order of dictionary entries and the
\* precision of 32-bit reals
C1_RoundTrip ==
  (source = "tree" /\ pc = "done") =>
    /\ outcome = "ok"
    /\ Canon(heap, pval) = Canon(given, root)

\* C2: decode terminates with bounded recursion depth: it never exhausts
\* the stack, and never has more parseTagAtOffset calls in progress than
\* the document has objects, mutually key-referencing dictionaries
\* included
C2_DecodeTerminates ==
  /\ outcome # "overflow"
  /\ Len(stack) <= Len(offtable)

\* C3: no successful decode returns a value graph with a reference cycle
\* (every document with a container reachable from itself is rejected)
C3_NoCycleReturned == outcome = "ok" => ~Cyclic

\* C4: a container with a reference to its own offset makes decode fail
\* with an error, and the container is parsed once only
C4_SelfRefRejected ==
  \A off \in selfref :
    /\ parses[off] <= 1
    /\ outcome \in {"running", "error"}

\* C5: every malformed input ends in a returned error, never in a
\* runtime fault
C5_MalformedIsError == pc = "done" => outcome \in {"ok", "error"}

\* C6: an error comes with a nil value, and a successful return comes
\* with every delayed slot holding the object decoded at its offset
C6_NoPartialTree ==
  /\ outcome \in {"error", "fault", "overflow"} => pval = Nil
  /\ outcome = "ok" =>
       \A s \in delayedObjects : heap[s.id].values[s.i] = objrefs[s.off]

C6_Witness ==
  /\ outcome = "ok"
  /\ \E s \in delayedObjects : heap[s.id].values[s.i] # Nil
  /\ \E s \in delayedObjects : heap[s.id].kind = "dict"
  /\ IsContainer(pval)

\* C7: the payload bytes of every accepted data, string, array and
\* dictionary object lie strictly below OffsetTableOffset
C7_PayloadBelowTable == \A p \in payload : p.hi < OTO

\* the trailer as it stands in the document
DocTrailer == ReadTrailer(doc, Len(doc) - TrailerSize)

BadTablePosition ==
  /\ Len(doc) >= TrailerSize
  /\ \/ U64Leq(U64(Len(doc) - TrailerSize), DocTrailer.OffsetTableOffset)
     \/ U64Less(DocTrailer.OffsetTableOffset, U64(9))

\* C8: a document whose OffsetTableOffset is >= the trailer position or
\* < 9 is rejected with an error before any offset table entry or object
\* is read
C8_TablePositionChecked ==
  BadTablePosition =>
    /\ pc = "start" \/ (pc = "done" /\ outcome = "error")
    /\ offtable = <<>>
    /\ parses = <<>>

C8_Witness ==
  /\ BadTablePosition
  /\ pc = "done"
  /\ why \in {"beyond", "header"}

\* NumObjects > 2^(8 * ObjectRefSize), computed without wrap-around
ExceedsRefWidth(t) ==
  /\ t.ObjectRefSize < 8
  /\ U64Less([i \in 1..8 |-> IF i = 8 - t.ObjectRefSize THEN 1 ELSE 0], t.NumObjects)

\* C9: the reference-width check rejects a trailer exactly when
\* NumObjects > 2^(8 * ObjectRefSize); ObjectRefSize = 8 is accepted
C9_RefWidthExact ==
  pc # "start" => (RefWidthRejects(trailer) <=> ExceedsRefWidth(trailer))

Occurrences(kinds) ==
  [i \in 1..Len(given) |->
     Cardinality({j \in 1..Len(given[i].values) : given[i].values[j].kind \in kinds})]

RECURSIVE Sum(_)
Sum(ns) == IF Len(ns) = 0 THEN 0 ELSE ns[1] + Sum(Tail(ns))

Slots(kinds) == {i \in 1..Len(objtable) : objtable[i].kind \in kinds}

TreeValues ==
  {root} \cup UNION {{given[i].values[j] : j \in 1..Len(given[i].values)}
                     \cup {cfString(given[i].keys[j]) : j \in 1..Len(given[i].keys)}
                    : i \in 1..Len(given)}

\* C11: after the flatten pass no two slots of the object table hold equal
\* strings or equal numbers, every string and number of the tree has a
\* slot, and every array and dictionary occurrence has a slot of its own
C11_Uniquing ==
  (source = "tree" /\ pc # "flatten") =>
    /\ \A i, j \in Slots({"string", "num"}) : objtable[i] = objtable[j] => i = j
    /\ \A v \in TreeValues :
         v.kind \in {"string", "num"} => \E i \in 1..Len(objtable) : objtable[i] = v
    /\ Cardinality(Slots({"array", "dict"}))
         = Sum(Occurrences({"array", "dict"})) + (IF IsContainer(root) THEN 1 ELSE 0)

C11_Witness ==
  /\ source = "tree"
  /\ pc = "serialize"
  /\ Cardinality(Slots({"string"})) = 1
  /\ Sum(Occurrences({"string"})) >= 2
  /\ \E i, j \in Slots({"array", "dict"}) :
       /\ i # j
       /\ objtable[i] # objtable[j]
       /\ nodes[objtable[i].val[1]] = nodes[objtable[j].val[1]]

\* the offsets at which a 16-byte integer object (tag 0x14) was decoded
WideInts ==
  {off \in DOMAIN objrefs : doc[off + 1] = 20 /\ off + 17 <= Len(doc)}

\* C12: a 16-byte integer decodes to a number whose value is the low 64
\* bits and whose signed flag is set exactly when the high 64 bits are
\* all ones; any other high 64 bits are dropped
C12_SignRecovery ==
  \A off \in WideInts :
    /\ objrefs[off].kind = "num"
    /\ objrefs[off].val = SubSeq(doc, off + 10, off + 17)
    /\ objrefs[off].flag <=> (\A i \in 2..9 : doc[off + i] = 255)

C12_Witness ==
  /\ outcome = "ok"
  /\ pval = cfNumber(TRUE, <<255, 255, 255, 255, 255, 255, 255, 133>>)
  /\ WideInts # {}

\* the document has been written by the generator
Encoded == source = "tree" /\ pc \notin {"flatten", "serialize"}

\* the 32 trailer bytes of a document of one object whose offset table is at oto
SoleTrailer(oto) ==
  <<0, 0, 0, 0, 0, 0, 1, 1, 0, 0, 0, 0, 0, 0, 0, 1,
    0, 0, 0, 0, 0, 0, 0, 0, 0, 0, 0, 0, 0, 0, 0, oto>>

HelloBytes ==
  <<98, 112, 108, 105, 115, 116, 48, 48, 85, 72, 101, 108, 108, 111, 8>> \o SoleTrailer(14)

\* C13: the string "Hello" as sole root is written as exactly these 47
\* bytes, and decoding them yields the string "Hello"
C13_HelloScenario ==
  (Encoded /\ root = cfString(Hello)) =>
    /\ doc = HelloBytes
    /\ Len(doc) = 47
    /\ pc = "done" => (outcome = "ok" /\ pval = cfString(Hello))

C13_Witness ==
  /\ Encoded
  /\ root = cfString(Hello)
  /\ pc = "done"
  /\ pval = cfString(Hello)

\* C14: the boolean true as sole root is written as exactly the 42 bytes
\* 'bplist00' 09 08 and the trailer; false is written with tag 0x08
C14_TrueScenario ==
  /\ (Encoded /\ root = cfBoolean(TRUE)) =>
       (doc = <<98, 112, 108, 105, 115, 116, 48, 48, 9, 8>> \o SoleTrailer(9)
        /\ Len(doc) = 42)
  /\ (Encoded /\ root = cfBoolean(FALSE)) =>
       doc = <<98, 112, 108, 105, 115, 116, 48, 48, 8, 8>> \o SoleTrailer(9)

C14_Witness ==
  /\ Encoded
  /\ root = cfBoolean(TRUE)
  /\ pc = "start"
  /\ doc[9] = 9

\* the tag patterns of the per-tag table
KnownTag(tag) ==
  \/ tag \div 16 \in {0, 1, 4, 5, 6, 8, 10, 13}
  \/ tag \in {34, 35, 51}

\* the entries of the offset table whose object has a tag byte matching no pattern
UnknownListed ==
  {i \in 1..Len(offtable) : offtable[i] < Len(doc) /\ ~KnownTag(doc[offtable[i] + 1])}

\* C15: once decode has ended on a document whose offset table lists an
\* object with a tag byte that matches no pattern of the per-tag table,
\* it has ended with an error
C15_UnknownTagRejected ==
  (source = "bytes" /\ pc = "done" /\ UnknownListed # {}) => outcome = "error"

\* the dictionary objects with an inline count for which parseTagAtOffset
\* has been called, in a document with one-byte references
DictsParsed ==
  {off \in DOMAIN parses :
     /\ trailer.ObjectRefSize = 1
     /\ off < Len(doc)
     /\ doc[off + 1] \div 16 = 13
     /\ doc[off + 1] % 16 < 15
     /\ off + 2 * (doc[off + 1] % 16) < ToNat(trailer.OffsetTableOffset)}

\* the j-th reference of the dictionary at off, and the offset it names
RefAt(off, j) == doc[off + 1 + j]

Referent(off, j) == offtable[RefAt(off, j) + 1]

\* the dictionary at off has a key reference naming an object that is not a string
NonStringKey(off) ==
  \E i \in 1..(doc[off + 1] % 16) :
    /\ \A j \in 1..(2 * (doc[off + 1] % 16)) : RefAt(off, j) < Len(offtable)
    /\ Referent(off, i) < Len(doc)
    /\ doc[Referent(off, i) + 1] \div 16 \notin {5, 6}

\* C16: a dictionary of count N that decode returns pairs its i-th
\* reference, a string, with its (N+i)-th reference; and decode of a
\* document with a dictionary one of whose key references names an
\* object that is not a string ends with an error and no value
C16_DictionaryLayout ==
  pc = "done" =>
    /\ outcome = "ok" =>
         \A off \in DictsParsed :
           LET n == doc[off + 1] % 16
               d == heap[objrefs[off].val[1]]
           IN  /\ objrefs[off].kind = "dict"
               /\ Len(d.keys) = n
               /\ Len(d.values) = n
               /\ \A i \in 1..n :
                    /\ objrefs[Referent(off, i)] = cfString(d.keys[i])
                    /\ objrefs[Referent(off, n + i)] = d.values[i]
    /\ (\E off \in DictsParsed : NonStringKey(off)) =>
         (outcome = "error" /\ pval = Nil)

\* what generateDocument writes for the value of instance i when it runs alone
Alone(i) ==
  generateDocument(flattenPlistValue([objmap |-> <<>>, objtable |-> <<>>, nodes |-> i.given],
                                     i.root), i.root).bytes

\* a step of the running instance leaves the other one as it is, and the
\* scheduler exchanges them whole
Isolated ==
  \/ parked' = parked
  \/ parked' = Running /\ Running' = parked

\* an instance that has written its document has written what it writes
\* alone, and two instances that have returned from equal bytes have
\* returned the same
SameAsAlone ==
  /\ \A i \in {Running, parked} :
       (i.source = "tree" /\ i.pc \in {"start", "offtable", "objects", "resolved", "done"})
         => i.doc = Alone(i)
  /\ (pc = "done" /\ parked.pc = "done" /\ doc = parked.doc) =>
       /\ outcome = parked.outcome
       /\ pval = parked.pval
       /\ heap = parked.heap
       /\ objrefs = parked.objrefs

\* C17: of two instances with documents of their own, interleaved in any
\* order, no step of one changes anything of the other, and each ends with
\* the result it has when it runs alone
C17_InstanceIndependence == [][SameAsAlone /\ Isolated]_vars

\* a number is the sole root of a document that has been written
NumberWritten == Encoded /\ root.kind = "num" /\ given = <<>>

\* C18: a negative number written by the generator and decoded again is a
\* number with the signed flag set and the same value
C18_SignSurvives ==
  (NumberWritten /\ root.flag /\ pc = "done") => (outcome = "ok" /\ pval = root)

\* the smallest of 1, 2, 4, 8 bytes that hold the 64 bits v
Width(v) ==
  IF \A i \in 1..7 : v[i] = 0 THEN 1
  ELSE IF \A i \in 1..6 : v[i] = 0 THEN 2
  ELSE IF \A i \in 1..4 : v[i] = 0 THEN 4
  ELSE 8

\* C19: a number is written as tag 0x10|n and the 2^n low bytes of its
\* 64 bits, big-endian, 2^n the smallest of 1, 2, 4, 8 holding them; a
\* negative number is written as 0x13 and its 8 bytes
C19_IntegerWidth ==
  NumberWritten =>
    LET w == Width(root.val)
    IN  /\ doc[9] = 16 + (CHOOSE n \in 0..3 : 2 ^ n = w)
        /\ SubSeq(doc, 10, 9 + w) = SubSeq(root.val, 9 - w, 8)
        /\ Len(doc) = 8 + 1 + w + 1 + TrailerSize
        /\ root.flag => (doc[9] = 19 /\ SubSeq(doc, 10, 17) = root.val)

C19_Witness ==
  /\ NumberWritten
  /\ pc = "start"
  /\ root = cfNumber(FALSE, U64(255))
  /\ doc[9] = 16

\* the count of the root of a written document: bytes of a string of
\* ASCII characters, elements of an array
RootCount ==
  IF root.kind = "string" THEN Len(root.val) ELSE Len(given[root.val[1]].values)

CountedWritten ==
  /\ Encoded
  /\ why # "serialize"
  /\ \/ root.kind = "string" /\ \A i \in 1..Len(root.val) : root.val[i] < 128
     \/ root.kind = "array"

\* counts around the limits of the widths of the integer object
Counts == {0, 1, 14, 15, 16, 255, 256, 65535, 65536, 2147483647}

\* C20: the count countForTag reads from what writeCountedTag has written
\* is the count written; a count below 15 is in the low nibble of the tag
\* and nothing follows, a count of 15 or more is low nibble 0xF followed
\* by an integer object holding the count
C20_CountedTagRoundTrip ==
  CountedWritten =>
    LET c    == RootCount
        tag  == doc[9]
        read == countForTag(doc, 9, tag)
    IN  /\ read.ok
        /\ read.cnt = U64(c)
        /\ c < 15 => (tag % 16 = c /\ read.next = 9)
        /\ c >= 15 =>
             /\ tag % 16 = 15
             /\ doc[10] \div 16 = 1
             /\ read.next = 10 + 2 ^ (doc[10] % 16) + 1 - 1
             /\ SubSeq(doc, 11, read.next) = SubSeq(U64(c), 9 - 2 ^ (doc[10] % 16), 8)
        /\ \A n \in Counts, t \in {64, 80, 96, 160, 208} :
             LET bytes == writeCountedTag(t, n)
             IN  /\ countForTag(bytes, 1, bytes[1]) =
                      [ok |-> TRUE, cnt |-> U64(n), next |-> Len(bytes)]
                 /\ Len(bytes) = 1 <=> n < 15
                 /\ bytes[1] = t + (IF n < 15 THEN n ELSE 15)

C20_Witness ==
  /\ CountedWritten
  /\ pc = "done"
  /\ outcome = "ok"
  /\ RootCount = 15
  /\ doc[9] % 16 = 15
  /\ doc[10] = 16
  /\ doc[11] = 15

\* the generator has written a whole document
Written1 == Encoded /\ why # "serialize"

\* the bytes generateDocument writes for the root r over the containers ns
BytesOf(ns, r) ==
  generateDocument(flattenPlistValue([objmap |-> <<>>, objtable |-> <<>>, nodes |-> ns], r),
                   r).bytes

Perms(n) == {p \in [1..n -> 1..n] : \A i, j \in 1..n : p[i] = p[j] => i = j}

\* the containers ns with the entries of each dictionary listed in any order
Relisted(n) ==
  IF n.kind # "dict" THEN {n}
  ELSE {[n EXCEPT !.keys = [i \in 1..Len(p) |-> n.keys[p[i]]],
                  !.values = [i \in 1..Len(p) |-> n.values[p[i]]]] :
          p \in Perms(Len(n.keys))}

RECURSIVE Reorderings(_)
Reorderings(ns) ==
  IF Len(ns) = 0 THEN {<<>>}
  ELSE {<<n>> \o rest : n \in Relisted(ns[1]), rest \in Reorderings(Tail(ns))}

DistinctKeys ==
  \A n \in 1..Len(given) :
    \A i, j \in 1..Len(given[n].keys) : given[n].keys[i] = given[n].keys[j] => i = j

\* offset of the object of slot s (from 1) in the document written, and
\* its j-th reference, each one byte wide
SlotOffset(s) == doc[ToNat(DocTrailer.OffsetTableOffset) + s]

SlotRef(s, j) == doc[SlotOffset(s) + 1 + j] + 1

\* C21: trees that differ only in the order in which the entries of their
\* dictionaries (of distinct keys) are listed are written as the same
\* bytes; the key references of a dictionary are in ascending order of
\* the keys, its value references in the order of their keys, and the
\* keys it adds to the table follow it directly, before its values
C21_OrderIndependent ==
  (Written1 /\ DistinctKeys) =>
    /\ \A ns \in Reorderings(given) \ {given} : BytesOf(ns, root) = doc
    /\ \A s \in 1..Len(objtable) :
         (/\ DocTrailer.OffsetIntSize = 1
          /\ DocTrailer.ObjectRefSize = 1
          /\ objtable[s].kind = "dict") =>
             LET g == given[objtable[s].val[1]]
                 n == Len(g.keys)
                 new == {j \in 1..n : SlotRef(s, j) > s}
             IN  /\ doc[SlotOffset(s) + 1] = 208 + n
                 /\ \A j \in 1..n :
                      /\ objtable[SlotRef(s, j)].kind = "string"
                      /\ \E e \in 1..n :
                           /\ g.keys[e] = objtable[SlotRef(s, j)].val
                           /\ g.values[e] = objtable[SlotRef(s, n + j)]
                      /\ j < n => StrLess(objtable[SlotRef(s, j)].val,
                                          objtable[SlotRef(s, j + 1)].val)
                 /\ \A j \in new :
                      SlotRef(s, j) = s + Cardinality({i \in new : i <= j})
                 /\ \A j \in 1..n :
                      (SlotRef(s, n + j) > s /\ objtable[SlotRef(s, n + j)].kind # "string")
                        => SlotRef(s, n + j) > s + Cardinality(new)

C21_Witness ==
  /\ Written1
  /\ pc = "start"
  /\ root = cfDictionary(1)
  /\ Len(given) = 2
  /\ given[2] = Listed(<<3, 1, 2>>)
  /\ nodes[2] = Listed(<<1, 2, 3>>)

\* a string is the sole root of a document that has been written
StringWritten == Written1 /\ root.kind = "string" /\ given = <<>>

\* the characters of the root string, and their UTF-16 code units
Characters == utf8Decode(root.val)

\* C22: a string all of whose characters are <= 0xFF is written as tag
\* 0x5, the count being its number of characters, and one byte for each
\* character; any other string is written as tag 0x6, the count being
\* its number of UTF-16 code units, and two big-endian bytes for each
C22_StringTagSelection ==
  StringWritten =>
    LET read  == countForTag(doc, 9, doc[9])
        units == utf16Encode(Characters)
        oto   == ToNat(DocTrailer.OffsetTableOffset)
    IN  IF \A i \in 1..Len(Characters) : Characters[i] <= 255
        THEN /\ doc[9] \div 16 = 5
             /\ read.cnt = U64(Len(Characters))
             /\ SubSeq(doc, read.next + 1, oto) = Characters
        ELSE /\ doc[9] \div 16 = 6
             /\ read.cnt = U64(Len(units))
             /\ SubSeq(doc, read.next + 1, oto)
                  = Concat([i \in 1..Len(units) |-> <<units[i] \div 256, units[i] % 256>>])

\* w bytes hold the number m (m is below 2^31, so four bytes always do)
Holds(w, m) == w >= 4 \/ (w = 1 /\ m < 256) \/ (w = 2 /\ m < 65536)

Smallest(m) == CHOOSE w \in {1, 2, 4, 8} : Holds(w, m) /\ \A v \in {1, 2, 4, 8} : Holds(v, m) => w <= v

\* C23: in a written document ObjectRefSize is the smallest of 1, 2, 4, 8
\* bytes that holds every index 0..NumObjects-1, and OffsetIntSize is the
\* smallest of them that holds OffsetTableOffset
C23_MinimalWidths ==
  Written1 =>
    /\ DocTrailer.ObjectRefSize = Smallest(ToNat(DocTrailer.NumObjects) - 1)
    /\ DocTrailer.OffsetIntSize = Smallest(ToNat(DocTrailer.OffsetTableOffset))

\* the flatten pass is over
Flattened == source = "tree" /\ pc # "flatten"

\* the values the serialize pass looks up: the keys, as strings, and the
\* values of every container of the object table
LookedUp ==
  UNION {LET n == nodes[objtable[i].val[1]]
         IN  {cfString(n.keys[j]) : j \in 1..Len(n.keys)}
               \cup {n.values[j] : j \in 1..Len(n.values)}
         : i \in {x \in 1..Len(objtable) : IsContainer(objtable[x])}}

\* two values are written as the same object
SameValue(a, b) ==
  /\ a.kind = b.kind
  /\ a.flag = b.flag
  /\ IF a.kind = "real" /\ ~a.flag THEN F64ToF32(a.val) = F64ToF32(b.val)
     ELSE a.val = b.val

\* C24: every key, value and element the serialize pass looks up is in
\* the map the flatten pass built, the index found is that of a slot that
\* holds the same value, and the serialize pass never fails
C24_LookupsNeverMiss ==
  Flattened =>
    /\ \A v \in LookedUp :
         /\ MapHas(objmap, hash(v))
         /\ SameValue(objtable[MapGet(objmap, hash(v)) + 1], v)
    /\ why # "serialize"

\* entry i (from 0) of the offset table of the written document
Entry(i) ==
  ToNat(readSizedInt(doc, ToNat(DocTrailer.OffsetTableOffset) + i * DocTrailer.OffsetIntSize,
                     DocTrailer.OffsetIntSize).lo)

\* C25: the document encode writes is accepted by decode, no check of
\* which fails; entry 0 of its offset table is 8, the entries are
\* strictly increasing, and TopObject is 0
C25_EncodedIsAccepted ==
  Written1 =>
    /\ outcome \notin {"error", "fault", "overflow"}
    /\ pc = "done" => outcome = "ok"
    /\ Entry(0) = 8
    /\ \A i \in 1..(ToNat(DocTrailer.NumObjects) - 1) : Entry(i - 1) < Entry(i)
    /\ DocTrailer.TopObject = Zero64

\* a dictionary of two entries or more, one of them a container, has been
\* written and decoded
C25_Witness ==
  /\ Written1
  /\ pc = "done"
  /\ outcome = "ok"
  /\ root.kind = "dict"
  /\ Len(nodes[1].keys) >= 2
  /\ \E j \in 1..Len(nodes[1].values) : IsContainer(nodes[1].values[j])

\* C26: when encode has returned, every dictionary of the tree handed to
\* it lists the keys and the values it listed before the call, in the
\* same order
C26_InputUnmodified ==
  (source = "tree" /\ pc \notin {"flatten", "serialize"}) =>
    \A i \in 1..Len(given) :
      /\ nodes[i].keys = given[i].keys
      /\ nodes[i].values = given[i].values

\* the entries of a dictionary are those of another, in some order
SameEntries(a, b) ==
  /\ Len(a.keys) = Len(b.keys)
  /\ Len(a.values) = Len(b.values)
  /\ \E p \in Perms(Len(a.keys)) :
       \A i \in 1..Len(a.keys) : a.keys[i] = b.keys[p[i]] /\ a.values[i] = b.values[p[i]]

\* C27: a dictionary that decode returns has a key list and a value list
\* of the length its tag declares, a key being listed as often as it is
\* referred to; and the sort of the flatten pass leaves every dictionary
\* with lists of equal length that hold the entries it was given
C27_DictionaryAlignment ==
  /\ (pc = "done" /\ outcome = "ok") =>
       /\ \A id \in DOMAIN heap : Len(heap[id].keys) \in {0, Len(heap[id].values)}
       /\ \A off \in DictsParsed :
            LET n == doc[off + 1] % 16
                d == heap[objrefs[off].val[1]]
            IN  /\ Len(d.keys) = n
                /\ Len(d.values) = n
                /\ \A i \in 1..n : cfString(d.keys[i]) = objrefs[Referent(off, i)]
  /\ Flattened =>
       \A i \in 1..Len(given) :
         /\ given[i].kind = "dict" => Len(nodes[i].keys) = Len(nodes[i].values)
         /\ SameEntries(nodes[i], given[i])

\* a dictionary given as b, a, a has been sorted by the flatten pass and
\* written, and decode has returned a dictionary that lists a, a, b
C27_Witness ==
  /\ Flattened
  /\ pc = "done"
  /\ outcome = "ok"
  /\ root.kind = "dict"
  /\ given[1].keys = <<<<98>>, <<97>>, <<97>>>>
  /\ nodes[1].keys = <<<<97>>, <<97>>, <<98>>>>
  /\ pval.kind = "dict"
  /\ heap[pval.val[1]].keys = <<<<97>>, <<97>>, <<98>>>>
  /\ 8 \in DictsParsed

\* the slots (from 0) that the array or dictionary written at slot s
\* refers to; no slot when the object of slot s is of another kind
RefsOf(s) ==
  LET tag == doc[Entry(s) + 1]
      c   == countForTag(doc, Entry(s) + 1, tag)
      n   == IF tag \div 16 = 13 THEN 2 * ToNat(c.cnt)
             ELSE IF tag \div 16 = 10 THEN ToNat(c.cnt)
             ELSE 0
  IN  {ToNat(readSizedInt(doc, c.next + (j - 1) * DocTrailer.ObjectRefSize,
                          DocTrailer.ObjectRefSize).lo) : j \in 1..n}

\* C28: in a written document every slot of the object table but the
\* root's is referred to by an array or a dictionary of the document
C28_NoOrphans ==
  Written1 =>
    (0..(ToNat(DocTrailer.NumObjects) - 1)) \ {ToNat(DocTrailer.TopObject)}
      \subseteq UNION {RefsOf(s) : s \in 0..(ToNat(DocTrailer.NumObjects) - 1)}

\* the nine variants of a value
Variants == {"bool", "num", "real", "date", "data", "string", "uid", "array", "dict"}

\* the containers of the tree decode returns
Returned ==
  IF IsContainer(pval) THEN {pval.val[1]} \cup ReachIn(pval.val[1], Len(heap)) ELSE {}

\* C29: when decode returns without an error, the root, every element of
\* an array and every value of a dictionary of the tree returned is of one
\* of the nine variants, none of them nil
C29_ClosedVariants ==
  (pc = "done" /\ outcome = "ok") =>
    /\ pval.kind \in Variants
    /\ \A id \in Returned :
         \A j \in 1..Len(heap[id].values) : heap[id].values[j].kind \in Variants

\* parseDocument has read the trailer and validateDocumentTrailer has passed
Validated ==
  /\ pc \notin {"flatten", "serialize", "start"}
  /\ validateDocumentTrailer(trailer, trailerOffset) = "ok"

\* C30: when the validation of the trailer passes, the offset table ends
\* where the trailer begins, OffsetTableOffset + NumObjects * OffsetIntSize
\* being the position of the trailer, and no byte of an entry of the table
\* lies in the trailer or past the end of the file
C30_OffsetTableExtent ==
  Validated =>
    /\ U64Add(U64Mul(trailer.NumObjects, trailer.OffsetIntSize), trailer.OffsetTableOffset)
         = U64(trailerOffset)
    /\ \A i \in 1..ToNat(trailer.NumObjects) :
         ToNat(trailer.OffsetTableOffset) + i * trailer.OffsetIntSize <= trailerOffset

====
